---- MODULE Spec2Model ----
(***************************************************************************)
(* The mission/agent execution state machine of the Codex orchestrator     *)
(* (src/src/server/orchestrator.js) driving one mission through            *)
(* createMission: planning, sequential agent execution with bounded        *)
(* retries, request_iteration insertions, completion or failure.           *)
(*                                                                         *)
(* One state per suspension point of the async code: every `await` of      *)
(* createMission, #planMission and #executeMission is a value of pc, and   *)
(* each action is the synchronous code that runs between two awaits.       *)
(* The engine (CodexRunner) is seen through its interface: a run is        *)
(* issued, and later resolves with a Run Result or rejects.                *)
(*                                                                         *)
(* Strings that the code takes apart (agent names, ids with their          *)
(* `__iter<n>` suffix) are sequences of string tokens; JS null/undefined   *)
(* is a distinguished value of the same shape as the values it replaces.   *)
(***************************************************************************)
EXTENDS Integers, Sequences, FiniteSets, TLC

\* ---------------------------------------------------------------- constants

MAX_PLAN_ATTEMPTS == 4

MAX_AGENT_ATTEMPTS == 3

\* ------------------------------------------------------------------- bounds

\* The longest agent queue the environment is allowed to build: a run ends
\* with a fulfilled request_iteration only while the new agents still fit.
MaxQueue == 4

\* The longest agent queue in the specifications that keep the logs in full.
MaxLoggedQueue == 3

\* The longest message (in tokens) given to the directive parser.
MaxTextLen == 4

\* The calls of the directive parser on one message.
MaxParses == 2

\* The longest instruction (in characters) given to the sanitizer.
MaxPromptLen == 4

\* The chunks of standard output a child writes in one run.
MaxLines == 3

\* The longest plan (number of planned agents) the planner returns.
MaxPlanLen == 2

\* The most completion events the child streams in one run.
MaxCompletionEvents == 2

\* The missions created concurrently on one orchestrator.
NumMissions == 2

\* The engine-run stages of a mission on the shared runner (planning, agents).
MaxStages == 2

\* The most lines the child of a planning run writes to its standard output.
MaxPlanLines == 3

\* ------------------------------------------------------- values and strings

\* JS null / undefined where a name (string) is expected.
NoName == <<"<undefined>">>

\* JS null / undefined where a plain string is expected.
NoStr == "<undefined>"

\* JS null where an object is expected.
NoResult == [isNull |-> TRUE]

NoBlueprint == [isNull |-> TRUE]

NoPlan == [isNull |-> TRUE]

NoDirective == [isNull |-> TRUE]

\* The numerals an `__iter<n>` suffix is written with.
IsNumeral(tok) == \E n \in 0..(MaxQueue + 2) : tok = ToString(n)

\* baseName.replace(/__iter\d+$/, '')
StripIter(name) ==
    IF /\ Len(name) >= 2
       /\ name[Len(name) - 1] = "__iter"
       /\ IsNumeral(name[Len(name)])
    THEN SubSeq(name, 1, Len(name) - 2)
    ELSE name

\* `${baseName}__iter${n}`
MakeId(baseName, n) == baseName \o <<"__iter", ToString(n)>>

\* String.prototype.toLowerCase on the action strings of the model.
ToLower(s) == IF s = "CONTINUE" THEN "continue" ELSE s

\* x ?? y on names
OrName(x, y) == IF x # NoName THEN x ELSE y

\* x ?? y on plain strings
OrStr(x, y) == IF x # NoStr THEN x ELSE y

\* ---------------------------------------------------------------- the state

VARIABLES
    pc,              \* the await at which createMission's flow is suspended
    status,          \* mission.status ("none": no mission created yet)
    error,           \* mission.error
    summary,         \* mission.summary
    agents,          \* mission.agents, the agent queue
    agentBlueprints, \* the keys of mission.agentBlueprints
    results,         \* mission.results, as the ids of the agents pushed
    events,          \* the lifecycle events emitted, in order
    planAttemptIndex,\* attemptIndex of #planMission
    planFailureReason,\* failureReason of #planMission
    idx,             \* the cursor of #executeMission (1-based)
    attemptIndex,    \* attemptIndex of #executeMission
    failureReason,   \* failureReason of #executeMission
    lastResult,      \* lastResult of #executeMission
    prompt,          \* the prompt of the engine run issued last
    activeChild,     \* runner.activeChild
    engineRuns,      \* history: engine runs issued for the agent at the cursor
    settled,         \* history: how the engine run awaited last settled
    logs,            \* mission.logs: its iteration:queued and agent:failure entries
    planRuns         \* history: engine runs issued by the #planMission call in progress

\* The state of one mission and of the createMission flow that drives it.
missionVars ==
    <<pc, status, error, summary, agents, agentBlueprints, results, events,
      planAttemptIndex, planFailureReason, idx, attemptIndex, failureReason,
      lastResult, prompt, activeChild, engineRuns, settled, logs, planRuns>>

\* One run of a subprocess engine: CodexRunner.runOnce (codexRunner.js) or
\* runCodexProcess (index.js), with the child process it spawns.
VARIABLES
    engineFn,        \* the function running: "runOnce" or "runCodexProcess"
    runPc,           \* "idle", "awaiting_exit" (the await of the child's exit), "returned"
    childOnTerm,     \* what the child does on SIGTERM: "dies" or "ignores"
    childExitCode,   \* child.exitCode
    childSignalCode, \* child.signalCode
    childKilled,     \* child.killed: a child.kill() call has sent a signal
    delivered,       \* the signals sent to the live child process
    kills,           \* history: <<path, signal>> for every signal sent
    completionTimer, \* completionTimer / completionKillTimer
    completionKill,  \* the force-kill timer the completion path arms
    timer,           \* timer / timeoutId, the run timeout
    timeoutKill,     \* the force-kill timer the timeout path arms
    completionStopRequested, \* runOnce: completionStopRequested
    completionDetected,      \* runCodexProcess: completionDetected
    terminatedAfterCompletion, \* runCodexProcess: terminatedAfterCompletion
    completion,      \* result.completion / lastCompletionType
    timedOut,        \* runCodexProcess: timedOut
    aborted,         \* runCodexProcess: aborted
    abortSignal,     \* extra.signal: "none", "idle" (listening), "aborted"
    streamed,        \* history: completion events the child has streamed
    runResult        \* the Run Result returned

childVars == <<childOnTerm, childExitCode, childSignalCode>>

killVars == <<delivered, childKilled, kills>>

timerVars == <<completionTimer, completionKill, timer, timeoutKill>>

flagVars ==
    <<completionStopRequested, completionDetected, terminatedAfterCompletion, completion,
      timedOut, aborted>>

engineVars ==
    <<engineFn, runPc, childVars, killVars, timerVars, flagVars, abortSignal, streamed,
      runResult>>

\* Several createMission flows of one Orchestrator on its one CodexRunner.
VARIABLES
    flows,           \* per mission: where its createMission flow is suspended
    liveChildren,    \* the child processes spawned by the runner and not exited
    runnerActiveChild, \* this.runner.activeChild
    ensureKills      \* history: <<m, child>> for every child an ensureInactive
                     \* awaited by mission m sent SIGTERM to

runnerVars == <<flows, liveChildren, runnerActiveChild, ensureKills>>

\* The diagnostic logs of the mission in full.
VARIABLES
    missionLog,      \* mission.logs, every entry in the order pushed
    agentLogs        \* agent.logs of every agent instance, by creation number

logVars == <<missionLog, agentLogs>>

\* The directive parser and the prompt sanitizer, called on their own.
VARIABLES
    message,         \* the message #extractControlDirective is called with
    extracted,       \* what the successive calls on that message returned
    rawPrompt,       \* the instruction as the caller composed it
    builtPrompt,     \* what buildAgentPrompt / buildMissionPlanPrompt returned
    promptPayload    \* runOnce: what is written to the child's stdin

\* #parsePlanCandidates called on the result of a planning run.
VARIABLES
    planResult,      \* what runOnce returned to #attemptPlan (NoResult: no run yet)
    candidateLog,    \* the plan:<label>:candidate entries pushed to mission.logs
    planParsed       \* what #parsePlanCandidates returned (NoResult: not called yet)

candidateVars == <<planResult, candidateLog, planParsed>>

\* The execution loop of a mission without its history: what the loop still
\* reads.
VARIABLES
    loopPc,          \* "idle", "plan_run", "plan_ensure", "agent_run", "agent_ensure", "returned"
    loopStatus,      \* mission.status
    loopBlueprints,  \* the keys of mission.agentBlueprints
    remaining,       \* mission.agents from the loop index on
    loopAttempt      \* attemptIndex of the planning loop, then of the agent's attempts

drainVars == <<loopPc, loopStatus, loopBlueprints, remaining, loopAttempt>>

\* The codex.exec tool of the MCP server and its session map.
VARIABLES
    sessions,        \* the Map `sessions`: session id -> session record
    execCalls,       \* the codex.exec calls awaiting runCodexProcess, by call number
    execClock,       \* history: the number of codex.exec calls made
    execSpawns,      \* history: the call numbers for which a process was started
    execReturns,     \* history: the runs that returned, with exit code and effective session id
    execThrown       \* history: the error of the call that threw last

sessionVars == <<sessions, execCalls, execClock, execSpawns, execReturns, execThrown>>

sideVars == <<candidateVars, drainVars, sessionVars>>

pureVars == <<message, extracted, rawPrompt, builtPrompt, promptPayload, sideVars>>

\* The standard output of one run, parsed as it arrives.
VARIABLES
    streamFn,        \* the function reading: "runOnce" or "runCodexProcess"
    streamPc,        \* "idle", "running" (the child writes), "exited"
    isJsonStream,    \* runCodexProcess: args.includes('--json')
    stdout,          \* result.stdout / stdout: every chunk as it arrived
    jsonBuffer,      \* runCodexProcess: the text behind the last line feed
    attempted,       \* history: the lines handed to JSON.parse, in order
    resultEvents,    \* result.events / the events counted and summarized
    threadId,        \* result.threadId / threadIdFromEvents
    turnId,          \* result.turnId / lastTurnId
    lastAgentMessage,\* result.lastAgentMessage / lastAgentMessage
    usage,           \* result.usage / usageMetrics
    lastCompletionType, \* result.completion / lastCompletionType
    completionSeen,  \* a completion event asked for the child's stop
    anomalies        \* the lines reported: emit('parse:error') / debugLog

accumulators == <<threadId, turnId, lastAgentMessage, usage, lastCompletionType>>

streamVars ==
    <<streamFn, streamPc, isJsonStream, stdout, jsonBuffer, attempted, resultEvents,
      accumulators, completionSeen, anomalies>>

vars == <<missionVars, engineVars, runnerVars, logVars, pureVars, streamVars>>

NoError == [isNull |-> TRUE]

NoPrompt == [isNull |-> TRUE]

NoSettle == [kind |-> "none"]

NoChild == [isNull |-> TRUE]

\* ------------------------------------------------------ the environment

\* Names a plan gives its agents (name absent: the agent_<n> default).
PlanNames == {<<"a">>, NoName}

RECURSIVE SeqsUpTo(_, _)
SeqsUpTo(S, n) ==
    IF n = 0 THEN {<<>>}
    ELSE LET shorter == SeqsUpTo(S, n - 1)
         IN  shorter \cup {Append(s, x) : s \in {t \in shorter : Len(t) = n - 1}, x \in S}

\* The parsed plans a planning run can yield: {mission_summary, summary,
\* agents: [...]}. Every list of names comes with a mission_summary; the plan
\* of the single agent a also comes with the `summary` alias, alone and next
\* to mission_summary, and with neither.
Plans ==
    {[mission_summary |-> "S", summary |-> NoStr,
      agents |-> [i \in DOMAIN ns |-> [name |-> ns[i]]]] :
        ns \in SeqsUpTo(PlanNames, MaxPlanLen)}
    \cup {[mission_summary |-> ms[1], summary |-> ms[2], agents |-> <<[name |-> <<"a">>]>>] :
            ms \in {<<NoStr, "T">>, <<"S", "T">>, <<NoStr, NoStr>>}}

\* How a planning run settles: it rejects, or resolves with an exit code
\* ("null": none) and the plan #parsePlanCandidates finds in it (NoPlan: no
\* candidate parses); preview tells whether the run gave any candidate text
\* (a plan is parsed from a candidate).
PlanOutcomes ==
    {[kind |-> "rejected"]}
    \cup {[kind |-> "resolved", exitCode |-> c, plan |-> p, preview |-> TRUE] :
            c \in {"0", "1"}, p \in Plans}
    \cup {[kind |-> "resolved", exitCode |-> c, plan |-> NoPlan, preview |-> v] :
            c \in {"0", "1", "null"}, v \in BOOLEAN}

\* Names an agent's directive can carry in target_agent / next_agent: absent,
\* a planned name, a default name, an agent id, a name no blueprint has.
DirectiveNames == {NoName, <<"a">>, <<"agent_", "2">>, <<"a", "__iter", "0">>, <<"zz">>}

\* The (target_agent, next_agent) pairs of the request_iteration directives:
\* every pair, except that the name no blueprint has is a target with two
\* follow-ups only (a target that does not resolve is all the code reads).
IterationNamePairs ==
    {<<t, n>> : t \in DirectiveNames \ {<<"zz">>}, n \in DirectiveNames}
    \cup {<<(<<"zz">>), n>> : n \in {NoName, <<"a">>}}

\* The objects #extractControlDirective can return. The follow_up_agent
\* alias comes with a request for a, alone and next to a next_agent.
Directives ==
    {[action |-> a, status |-> NoStr, target_agent |-> NoName, next_agent |-> NoName,
      follow_up_agent |-> NoName] : a \in {NoStr, "continue", "CONTINUE", "deploy"}}
    \cup {[action |-> NoStr, status |-> "continue", target_agent |-> NoName,
           next_agent |-> NoName, follow_up_agent |-> NoName]}
    \cup {[action |-> "request_iteration", status |-> NoStr, target_agent |-> tn[1],
           next_agent |-> tn[2], follow_up_agent |-> NoName] : tn \in IterationNamePairs}
    \cup {[action |-> "request_iteration", status |-> NoStr, target_agent |-> <<"a">>,
           next_agent |-> n, follow_up_agent |-> <<"agent_", "2">>] : n \in {NoName, <<"zz">>}}

\* How an agent run settles. exitCode is the Run Result's effective exit code
\* ("null": none); directive is what #extractControlDirective makes of the
\* final message (NoDirective: no marker, or unparseable); hadExecutionErrors
\* is #resultHasExecutionErrors(result), which comes with every directive
\* that names no follow-up (the code reads it for `continue` only).
AgentOutcomes ==
    {[kind |-> "rejected"]}
    \cup {[kind |-> "resolved", exitCode |-> c, directive |-> NoDirective,
           hadExecutionErrors |-> FALSE] : c \in {"0", "1", "null"}}
    \cup {[kind |-> "resolved", exitCode |-> "0", directive |-> d,
           hadExecutionErrors |-> FALSE] : d \in Directives}
    \cup {[kind |-> "resolved", exitCode |-> "0", directive |-> d,
           hadExecutionErrors |-> TRUE] :
            d \in {x \in Directives : x.next_agent = NoName /\ x.follow_up_agent = NoName}}

\* --------------------------------------------------------- pure operators

\* Mutant of PlanAgents: the default name counts from 0 (`agent_${index}`).
PlanAgentsZeroBased(parsed) ==
    [index \in DOMAIN parsed.agents |->
        LET baseName == OrName(parsed.agents[index].name, <<"agent_", ToString(index - 1)>>)
        IN  [id |-> MakeId(baseName, 0),
             name |-> baseName,
             baseName |-> baseName,
             iteration |-> 0,
             status |-> "pending",
             result |-> NoResult,
             triggeredBy |-> NoName,
             created |-> index]]

\* #applyPlanResult: the agent queue a parsed plan is projected into. The
\* field `created` is a history field (the creation number of the instance).
PlanAgents(parsed) ==
    [index \in DOMAIN parsed.agents |->
        LET baseName == OrName(parsed.agents[index].name, <<"agent_", ToString(index)>>)
        IN  [id |-> MakeId(baseName, 0),
             name |-> baseName,
             baseName |-> baseName,
             iteration |-> 0,
             status |-> "pending",
             result |-> NoResult,
             triggeredBy |-> NoName,
             created |-> index]]

\* #applyPlanResult: parsed.mission_summary ?? parsed.summary ?? null
PlanSummary(parsed) == OrStr(parsed.mission_summary, OrStr(parsed.summary, NoStr))

\* #applyPlanResult: the keys registered in mission.agentBlueprints.
PlanBlueprints(parsed) ==
    {OrName(parsed.agents[index].name, <<"agent_", ToString(index)>>) :
        index \in DOMAIN parsed.agents}

\* #getAgentBlueprint
GetAgentBlueprint(bps, baseName) ==
    IF baseName \in bps THEN [name |-> baseName]
    ELSE IF StripIter(baseName) \in bps THEN [name |-> StripIter(baseName)]
    ELSE NoBlueprint

\* #cloneAgentForIteration (created is stamped when the clone is spliced in)
CloneAgentForIteration(blueprint, ags, triggeredBy) ==
    LET existingCount == Cardinality({i \in DOMAIN ags : ags[i].baseName = blueprint.name})
        iterationIndex == existingCount
    IN  [id |-> MakeId(blueprint.name, iterationIndex),
         name |-> blueprint.name,
         baseName |-> blueprint.name,
         iteration |-> iterationIndex,
         status |-> "pending",
         result |-> NoResult,
         triggeredBy |-> triggeredBy,
         created |-> 0]

\* Mutant of Splice: the new instances are inserted ahead of the cursor.
SpliceBeforeCursor(ags, insertIndex, newAgents) ==
    SubSeq(ags, 1, insertIndex - 1)
    \o [k \in DOMAIN newAgents |-> [newAgents[k] EXCEPT !.created = Len(ags) + k]]
    \o SubSeq(ags, insertIndex, Len(ags))

\* Mutant of Splice: the new instances are pushed at the end of the queue.
SpliceAtEnd(ags, insertIndex, newAgents) ==
    ags \o [k \in DOMAIN newAgents |-> [newAgents[k] EXCEPT !.created = Len(ags) + k]]

\* Mutant of Splice: the new instances are inserted in reverse order.
SpliceReversed(ags, insertIndex, newAgents) ==
    SubSeq(ags, 1, insertIndex)
    \o [k \in DOMAIN newAgents |->
          [newAgents[Len(newAgents) + 1 - k] EXCEPT
              !.created = Len(ags) + Len(newAgents) + 1 - k]]
    \o SubSeq(ags, insertIndex + 1, Len(ags))

\* mission.agents.splice(insertIndex + 1, 0, ...newAgents), 1-based; the new
\* instances get the next creation numbers.
Splice(ags, insertIndex, newAgents) ==
    SubSeq(ags, 1, insertIndex)
    \o [k \in DOMAIN newAgents |-> [newAgents[k] EXCEPT !.created = Len(ags) + k]]
    \o SubSeq(ags, insertIndex + 1, Len(ags))

\* Mutant of the follow-up name: the follow_up_agent alias is not read.
FollowUpNameWithoutAlias(requestingAgent, directive) ==
    OrName(directive.next_agent, OrName(requestingAgent.baseName, requestingAgent.name))

\* The follow-up name of #enqueueIterationAgents.
FollowUpName(requestingAgent, directive) ==
    OrName(directive.next_agent,
           OrName(directive.follow_up_agent,
                  OrName(requestingAgent.baseName, requestingAgent.name)))

\* shouldAddFollowUp: followUpName && followUpName !== targetBlueprint.name
ShouldAddFollowUp(followUpName, targetBlueprint) ==
    followUpName # <<>> /\ followUpName # targetBlueprint.name

\* Mutant of #enqueueIterationAgents: a target that does not resolve falls
\* back to the requester's own blueprint instead of returning 0.
EnqueueIterationAgentsFallsBack(ags, bps, requestingAgent, directive, insertIndex) ==
    LET targetName ==
            OrName(directive.target_agent,
                   OrName(requestingAgent.baseName, requestingAgent.name))
        resolved == GetAgentBlueprint(bps, targetName)
        targetBlueprint ==
            IF resolved = NoBlueprint
            THEN GetAgentBlueprint(bps, requestingAgent.baseName)
            ELSE resolved
        iterationAgent ==
            CloneAgentForIteration(targetBlueprint, ags, requestingAgent.name)
        followUpName == FollowUpName(requestingAgent, directive)
        followUpBlueprint == GetAgentBlueprint(bps, followUpName)
        newAgents ==
            IF /\ ShouldAddFollowUp(followUpName, targetBlueprint)
               /\ followUpBlueprint # NoBlueprint
            THEN <<iterationAgent,
                   CloneAgentForIteration(followUpBlueprint, ags, requestingAgent.name)>>
            ELSE <<iterationAgent>>
    IN  [agents |-> Splice(ags, insertIndex, newAgents), inserted |-> Len(newAgents)]

\* #enqueueIterationAgents: the queue after the insertion and the number of
\* instances inserted.
EnqueueIterationAgents(ags, bps, requestingAgent, directive, insertIndex) ==
    LET targetName ==
            OrName(directive.target_agent,
                   OrName(requestingAgent.baseName, requestingAgent.name))
        targetBlueprint == GetAgentBlueprint(bps, targetName)
    IN  IF targetBlueprint = NoBlueprint
        THEN [agents |-> ags, inserted |-> 0]
        ELSE
        LET iterationAgent ==
                CloneAgentForIteration(targetBlueprint, ags, requestingAgent.name)
            followUpName == FollowUpName(requestingAgent, directive)
            followUpBlueprint == GetAgentBlueprint(bps, followUpName)
            newAgents ==
                IF /\ ShouldAddFollowUp(followUpName, targetBlueprint)
                   /\ followUpBlueprint # NoBlueprint
                THEN <<iterationAgent,
                       CloneAgentForIteration(followUpBlueprint, ags, requestingAgent.name)>>
                ELSE <<iterationAgent>>
        IN  [agents |-> Splice(ags, insertIndex, newAgents), inserted |-> Len(newAgents)]

\* Mutant of #handleControlDirective: the execution errors of the run are not
\* looked at.
HandleControlDirectiveIgnoresErrors(ags, bps, requestingAgent, directive, insertIndex, hadExecutionErrors) ==
    LET action == ToLower(OrStr(directive.action, OrStr(directive.status, "")))
    IN  IF action = ""
        THEN [ok |-> FALSE, inserted |-> 0, agents |-> ags,
              reason |-> "CONTROL_JSON missing action"]
        ELSE IF action = "continue"
        THEN [ok |-> TRUE, inserted |-> 0, agents |-> ags, reason |-> NoStr]
        ELSE IF action = "request_iteration"
        THEN LET enq == EnqueueIterationAgents(ags, bps, requestingAgent, directive, insertIndex)
             IN  IF enq.inserted = 0
                 THEN [ok |-> FALSE, inserted |-> 0, agents |-> ags,
                       reason |-> "Iteration request could not be fulfilled"]
                 ELSE [ok |-> TRUE, inserted |-> enq.inserted, agents |-> enq.agents,
                       reason |-> NoStr]
        ELSE [ok |-> FALSE, inserted |-> 0, agents |-> ags,
              reason |-> "Unsupported CONTROL_JSON action"]

\* Mutant of #handleControlDirective: a continue directive is handled like a
\* request_iteration (the action test falls through), so the requester's own
\* blueprint is queued again.
HandleControlDirectiveContinueRequeues(ags, bps, requestingAgent, directive, insertIndex, hadExecutionErrors) ==
    LET action == ToLower(OrStr(directive.action, OrStr(directive.status, "")))
    IN  IF action = ""
        THEN [ok |-> FALSE, inserted |-> 0, agents |-> ags,
              reason |-> "CONTROL_JSON missing action"]
        ELSE IF action \in {"continue", "request_iteration"}
        THEN LET enq == EnqueueIterationAgents(ags, bps, requestingAgent, directive, insertIndex)
             IN  IF enq.inserted = 0
                 THEN [ok |-> FALSE, inserted |-> 0, agents |-> ags,
                       reason |-> "Iteration request could not be fulfilled"]
                 ELSE [ok |-> TRUE, inserted |-> enq.inserted, agents |-> enq.agents,
                       reason |-> NoStr]
        ELSE [ok |-> FALSE, inserted |-> 0, agents |-> ags,
              reason |-> "Unsupported CONTROL_JSON action"]

\* Mutant of #handleControlDirective: an action that is not known lets the
\* mission go on like continue.
HandleControlDirectiveLenient(ags, bps, requestingAgent, directive, insertIndex, hadExecutionErrors) ==
    LET action == ToLower(OrStr(directive.action, OrStr(directive.status, "")))
    IN  IF action = ""
        THEN [ok |-> FALSE, inserted |-> 0, agents |-> ags,
              reason |-> "CONTROL_JSON missing action"]
        ELSE IF action = "request_iteration"
        THEN LET enq == EnqueueIterationAgents(ags, bps, requestingAgent, directive, insertIndex)
             IN  IF enq.inserted = 0
                 THEN [ok |-> FALSE, inserted |-> 0, agents |-> ags,
                       reason |-> "Iteration request could not be fulfilled"]
                 ELSE [ok |-> TRUE, inserted |-> enq.inserted, agents |-> enq.agents,
                       reason |-> NoStr]
        ELSE IF hadExecutionErrors
        THEN [ok |-> FALSE, inserted |-> 0, agents |-> ags,
              reason |-> "Execution errors detected; cannot continue"]
        ELSE [ok |-> TRUE, inserted |-> 0, agents |-> ags, reason |-> NoStr]

\* #handleControlDirective
HandleControlDirective(ags, bps, requestingAgent, directive, insertIndex, hadExecutionErrors) ==
    LET action == ToLower(OrStr(directive.action, OrStr(directive.status, "")))
    IN  IF action = ""
        THEN [ok |-> FALSE, inserted |-> 0, agents |-> ags,
              reason |-> "CONTROL_JSON missing action"]
        ELSE IF action = "continue"
        THEN IF hadExecutionErrors
             THEN [ok |-> FALSE, inserted |-> 0, agents |-> ags,
                   reason |-> "Execution errors detected; cannot continue"]
             ELSE [ok |-> TRUE, inserted |-> 0, agents |-> ags, reason |-> NoStr]
        ELSE IF action = "request_iteration"
        THEN LET enq == EnqueueIterationAgents(ags, bps, requestingAgent, directive, insertIndex)
             IN  IF enq.inserted = 0
                 THEN [ok |-> FALSE, inserted |-> 0, agents |-> ags,
                       reason |-> "Iteration request could not be fulfilled"]
                 ELSE [ok |-> TRUE, inserted |-> enq.inserted, agents |-> enq.agents,
                       reason |-> NoStr]
        ELSE [ok |-> FALSE, inserted |-> 0, agents |-> ags,
              reason |-> "Unsupported CONTROL_JSON action"]

\* The iteration:queued entry #enqueueIterationAgents pushes to mission.logs
\* after splicing `inserted` new instances behind insertIndex.
IterationQueued(requestingAgent, ags, insertIndex, inserted) ==
    [type |-> "iteration:queued",
     agent |-> requestingAgent.name,
     insertedAgents |-> [k \in 1..inserted |-> ags[insertIndex + k].id]]

\* One resolved attempt of #executeMission, from the exit-code test to the
\* directive outcome (orchestrator.js 438-468).
AttemptOutcome(ags, bps, agent, insertIndex, result) ==
    IF result.exitCode # "0"
    THEN [ok |-> FALSE, inserted |-> 0, agents |-> ags, reason |-> "Codex exited with code"]
    ELSE IF result.directive = NoDirective
    THEN [ok |-> FALSE, inserted |-> 0, agents |-> ags,
          reason |-> "CONTROL_JSON directive missing or invalid"]
    ELSE HandleControlDirective(ags, bps, agent, result.directive, insertIndex,
                                result.hadExecutionErrors)

\* buildAgentPrompt: the agent the prompt addresses and its corrective block.
BuildAgentPrompt(agent, attempt, reason) ==
    [agent |-> agent.id,
     retryBlock |-> IF reason # NoStr THEN <<ToString(attempt + 1), reason>> ELSE <<>>]

\* Mutant of buildMissionPlanPrompt: the failure annotation is left out.
BuildMissionPlanPromptWithoutReason(emphasis, reason) ==
    [agent |-> <<"planner">>, retryBlock |-> <<emphasis>>]

\* buildMissionPlanPrompt: the emphasis and the failure annotation.
BuildMissionPlanPrompt(emphasis, reason) ==
    [agent |-> <<"planner">>,
     retryBlock |-> IF reason # NoStr THEN <<emphasis, reason>> ELSE <<emphasis>>]

\* The for-loop's skip guard: the first index from `from` on whose agent is
\* not completed (Len + 1: the loop ends).
RECURSIVE SkipCompleted(_, _)
SkipCompleted(ags, from) ==
    IF from > Len(ags) THEN from
    ELSE IF ags[from].status = "completed" THEN SkipCompleted(ags, from + 1)
    ELSE from

\* The child process an engine run spawns (runner.activeChild = child).
Child == [isNull |-> FALSE]

Emit(evs, type, agentId) == Append(evs, [type |-> type, agent |-> agentId])

\* ------------------------------------------------------------------ Init

NoRunResult == [isNull |-> TRUE]

\* No run of an engine yet.
EngineIdle ==
    /\ engineFn = "none"
    /\ runPc = "idle"
    /\ childOnTerm = "dies"
    /\ childExitCode = "null"
    /\ childSignalCode = "null"
    /\ childKilled = FALSE
    /\ delivered = {}
    /\ kills = {}
    /\ completionTimer = "null"
    /\ completionKill = "null"
    /\ timer = "null"
    /\ timeoutKill = "null"
    /\ completionStopRequested = FALSE
    /\ completionDetected = FALSE
    /\ terminatedAfterCompletion = FALSE
    /\ completion = "null"
    /\ timedOut = FALSE
    /\ aborted = FALSE
    /\ abortSignal = "none"
    /\ streamed = 0
    /\ runResult = NoRunResult

Missions == 1..NumMissions

\* No child: runner.activeChild = null.
NoChildId == <<0, 0>>

\* The orchestrator's runner after construction, no createMission call yet.
RunnerIdle ==
    /\ flows = [m \in Missions |->
                  [pc |-> "idle", stage |-> 0, attemptIndex |-> 0, runs |-> 0,
                   child |-> NoChildId]]
    /\ liveChildren = {}
    /\ runnerActiveChild = NoChildId
    /\ ensureKills = {}

\* mission.logs = [] and no agent yet.
LogsEmpty ==
    /\ missionLog = <<>>
    /\ agentLogs = <<>>

\* JS null where a text is expected.
NoText == <<"<null>">>

\* No call of the parser or of the sanitizer yet.
NothingParsed ==
    /\ message = NoText
    /\ extracted = <<>>
    /\ rawPrompt = NoText
    /\ builtPrompt = NoText
    /\ promptPayload = NoText
    /\ planResult = NoResult
    /\ candidateLog = <<>>
    /\ planParsed = NoResult
    /\ loopPc = "idle"
    /\ loopStatus = "none"
    /\ loopBlueprints = {}
    /\ remaining = <<>>
    /\ loopAttempt = 0
    /\ sessions = [id \in {} |-> NoResult]
    /\ execCalls = [n \in {} |-> NoResult]
    /\ execClock = 0
    /\ execSpawns = {}
    /\ execReturns = <<>>
    /\ execThrown = NoStr

\* No run reads any output yet.
StreamIdle ==
    /\ streamFn = "none"
    /\ streamPc = "idle"
    /\ isJsonStream = TRUE
    /\ stdout = <<>>
    /\ jsonBuffer = ""
    /\ attempted = <<>>
    /\ resultEvents = <<>>
    /\ threadId = NoStr
    /\ turnId = NoStr
    /\ lastAgentMessage = NoStr
    /\ usage = NoStr
    /\ lastCompletionType = NoStr
    /\ completionSeen = FALSE
    /\ anomalies = <<>>

\* The orchestrator after construction: no mission yet.
Init ==
    /\ EngineIdle
    /\ StreamIdle
    /\ RunnerIdle
    /\ LogsEmpty
    /\ NothingParsed
    /\ pc = "idle"
    /\ status = "none"
    /\ error = NoError
    /\ summary = NoStr
    /\ agents = <<>>
    /\ agentBlueprints = {}
    /\ results = <<>>
    /\ events = <<>>
    /\ planAttemptIndex = 0
    /\ planFailureReason = NoStr
    /\ idx = 0
    /\ attemptIndex = 0
    /\ failureReason = NoStr
    /\ lastResult = NoResult
    /\ prompt = NoPrompt
    /\ activeChild = NoChild
    /\ engineRuns = 0
    /\ settled = NoSettle
    /\ logs = <<>>
    /\ planRuns = 0

execVars == <<idx, attemptIndex, failureReason, lastResult>>

planVars == <<planAttemptIndex, planFailureReason, planRuns>>

missionData == <<summary, agents, agentBlueprints, results, logs>>

\* --------------------------------------------------------------- planning

\* createMission with a missing or non-string goal: throws, no mission.
CreateMissionInvalidGoal ==
    /\ pc = "idle"
    /\ pc' = "threw"
    /\ UNCHANGED <<status, error, missionData, events, planVars, execVars, prompt,
                   activeChild, engineRuns, settled>>

\* createMission up to the first await: the mission record is created and
\* #planMission issues the first planning run (orchestrator.js 172-196,
\* 211-227, 259-263).
CreateMission ==
    /\ pc = "idle"
    /\ status' = "planning"
    /\ events' = Emit(Emit(events, "mission:created", NoName), "mission:planning", NoName)
    /\ planAttemptIndex' = 0
    /\ planFailureReason' = NoStr
    /\ planRuns' = 1
    /\ prompt' = BuildMissionPlanPrompt("standard", NoStr)
    /\ activeChild' = Child
    /\ pc' = "plan_run"
    /\ UNCHANGED <<error, missionData, execVars, engineRuns, settled>>

\* Mutant of PlanAttemptFailed: the loop test is `<=`, one attempt too many.
PlanAttemptFailedOffByOne(reason) ==
    /\ planFailureReason' = reason
    /\ planAttemptIndex' = planAttemptIndex + 1
    /\ pc' = IF planAttemptIndex + 1 <= MAX_PLAN_ATTEMPTS THEN "plan_ensure" ELSE "plan_threw"
    /\ UNCHANGED <<status, error, missionData, events, execVars, prompt, engineRuns,
                   planRuns>>

\* The rest of a failed planning attempt: the loop's increment and either the
\* await of ensureInactive before the next attempt or the throw after the
\* last one (orchestrator.js 216-220, 252-256).
PlanAttemptFailed(reason) ==
    /\ planFailureReason' = reason
    /\ planAttemptIndex' = planAttemptIndex + 1
    /\ pc' = IF planAttemptIndex + 1 < MAX_PLAN_ATTEMPTS THEN "plan_ensure" ELSE "plan_threw"
    /\ UNCHANGED <<status, error, missionData, events, execVars, prompt, engineRuns,
                   planRuns>>

\* #describePlanFailure for a planning run that resolved without a plan.
DescribePlanFailure(attempt) ==
    IF attempt.exitCode # "null" /\ attempt.exitCode # "0" THEN "Codex exited with code"
    ELSE IF ~attempt.preview THEN "Planner response lacked valid JSON"
    ELSE "Planner response was not valid JSON"

\* The planning run rejects (orchestrator.js 228-237).
PlanRunRejects ==
    /\ pc = "plan_run"
    /\ settled' = [kind |-> "rejected"]
    /\ UNCHANGED activeChild
    /\ PlanAttemptFailed("Codex planner error")

\* The planning run resolves without a usable plan (orchestrator.js 243-250).
PlanRunResolvesWithoutPlan ==
    /\ pc = "plan_run"
    /\ \E o \in PlanOutcomes :
        /\ o.kind = "resolved"
        /\ o.plan = NoPlan
        /\ settled' = o
        /\ activeChild' = NoChild
        /\ PlanAttemptFailed(DescribePlanFailure(o))

\* The planning run resolves with a plan: #applyPlanResult, and #planMission
\* returns (orchestrator.js 238-242, 351-381).
PlanRunResolvesWithPlan ==
    /\ pc = "plan_run"
    /\ \E o \in PlanOutcomes :
        /\ o.kind = "resolved"
        /\ o.plan # NoPlan
        /\ settled' = o
        /\ activeChild' = NoChild
        /\ summary' = PlanSummary(o.plan)
        /\ agentBlueprints' = agentBlueprints \cup PlanBlueprints(o.plan)
        /\ agents' = PlanAgents(o.plan)
        /\ planAttemptIndex' = 0
        /\ planFailureReason' = NoStr
        /\ planRuns' = 0
        /\ events' = Emit(events, "mission:planned", NoName)
        /\ pc' = "plan_returned"
        /\ UNCHANGED <<status, error, results, logs, execVars, prompt, engineRuns>>

\* ensureInactive has returned before a planning retry: the next planning run
\* is issued (orchestrator.js 219-227, 259-263; codexRunner.js 31-69).
PlanEnsureInactiveReturns ==
    /\ pc = "plan_ensure"
    /\ prompt' = BuildMissionPlanPrompt("retry", planFailureReason)
    /\ planRuns' = planRuns + 1
    /\ activeChild' = Child
    /\ pc' = "plan_run"
    /\ UNCHANGED <<status, error, missionData, events, planAttemptIndex, planFailureReason,
                   execVars, engineRuns, settled>>

\* #planMission threw: createMission's catch (orchestrator.js 201-208).
PlanMissionThrew ==
    /\ pc = "plan_threw"
    /\ status' = "failed"
    /\ error' = [isNull |-> FALSE, kind |-> "plan", agent |-> NoName,
                 reason |-> planFailureReason]
    /\ events' = Emit(events, "mission:failed", NoName)
    /\ pc' = "returned"
    /\ UNCHANGED <<missionData, planVars, execVars, prompt, activeChild, engineRuns,
                   settled>>

\* -------------------------------------------------------------- execution

\* agent.result as captured from a Run Result (orchestrator.js 472-477, 496-501)
CaptureResult(result) == [isNull |-> FALSE]

\* Mutant of FinalizeAgent: the result is captured but the status is left as
\* it was.
FinalizeAgentKeepsStatus(ags, i, result) ==
    [ags EXCEPT ![i].result = CaptureResult(result)]

\* The agent at index i finalized from Run Result `result`
\* (orchestrator.js 470-478).
FinalizeAgent(ags, i, result) ==
    [ags EXCEPT ![i].status = "completed", ![i].result = CaptureResult(result)]

\* The for-loop of #executeMission from cursor value `from` on, up to its next
\* await: completed agents are skipped; the next agent is marked running,
\* agent:started is emitted and its first engine run is issued (no
\* ensureInactive before attempt 0); or the loop ends and #executeMission
\* returns (orchestrator.js 388-419). ags, evs and child are the queue, the
\* events and runner.activeChild as the code before left them.
ContinueLoop(ags, from, evs, child) ==
    LET j == SkipCompleted(ags, from)
    IN  /\ idx' = j
        /\ attemptIndex' = 0
        /\ failureReason' = NoStr
        /\ lastResult' = NoResult
        /\ IF j <= Len(ags)
           THEN /\ agents' = [ags EXCEPT ![j].status = "running"]
                /\ events' = Emit(evs, "agent:started", ags[j].id)
                /\ engineRuns' = 1
                /\ prompt' = BuildAgentPrompt(ags[j], 0, NoStr)
                /\ activeChild' = Child
                /\ pc' = "agent_run"
           ELSE /\ agents' = ags
                /\ events' = evs
                /\ engineRuns' = engineRuns
                /\ prompt' = prompt
                /\ activeChild' = child
                /\ pc' = "exec_returned"

\* #planMission returned: createMission calls #executeMission, which marks the
\* mission executing and enters its loop (orchestrator.js 197, 383-388).
PlanMissionReturned ==
    /\ pc = "plan_returned"
    /\ status' = "executing"
    /\ ContinueLoop(agents, 1, Emit(events, "mission:executing", NoName), activeChild)
    /\ UNCHANGED <<error, summary, agentBlueprints, results, logs, planVars, settled>>

\* Mutant of RetryAttempt: the attempt counter is not incremented (a
\* `continue` without `attemptIndex += 1`).
RetryAttemptNotCounted(reason, last) ==
    /\ failureReason' = reason
    /\ attemptIndex' = attemptIndex
    /\ lastResult' = last
    /\ pc' = "agent_ensure"
    /\ UNCHANGED <<status, error, missionData, events, idx, prompt, engineRuns>>

\* Mutant of RetryAttempt: a failed attempt puts the agent back to pending
\* until its next attempt starts.
RetryAttemptResetsStatus(reason, last) ==
    /\ failureReason' = reason
    /\ attemptIndex' = attemptIndex + 1
    /\ lastResult' = last
    /\ agents' = [agents EXCEPT ![idx].status = "pending"]
    /\ pc' = "agent_ensure"
    /\ UNCHANGED <<status, error, summary, agentBlueprints, results, logs, events, idx, prompt, engineRuns>>

\* A failed attempt that leaves budget: the while-loop's next turn awaits
\* ensureInactive (orchestrator.js 406-409).
RetryAttempt(reason, last) ==
    /\ failureReason' = reason
    /\ attemptIndex' = attemptIndex + 1
    /\ lastResult' = last
    /\ pc' = "agent_ensure"
    /\ UNCHANGED <<status, error, missionData, events, idx, prompt, engineRuns>>

\* Mutant of ExhaustAgent: the agent is marked failed but the `return` is
\* missing, so the for-loop goes on to the next agent.
ExhaustAgentGoesOn(reason, last) ==
    /\ failureReason' = reason
    /\ attemptIndex' = attemptIndex + 1
    /\ lastResult' = last
    /\ agents' = [agents EXCEPT ![idx].status = "failed"]
    /\ status' = "failed"
    /\ error' = [isNull |-> FALSE, kind |-> "agent_exhausted", agent |-> agents[idx].name,
                 reason |-> reason]
    /\ logs' = Append(logs, [type |-> "agent:failure", agent |-> agents[idx].name,
                              insertedAgents |-> <<>>])
    /\ events' = Emit(events, "mission:failed", NoName)
    /\ pc' = "agent_finished"
    /\ UNCHANGED <<summary, agentBlueprints, results, idx, prompt, engineRuns>>

\* Mutant of ExhaustAgent: the failure discards the results gathered so far.
ExhaustAgentRollsBack(reason, last) ==
    /\ failureReason' = reason
    /\ attemptIndex' = attemptIndex + 1
    /\ lastResult' = last
    /\ agents' = [agents EXCEPT ![idx].status = "failed"]
    /\ status' = "failed"
    /\ error' = [isNull |-> FALSE, kind |-> "agent_exhausted", agent |-> agents[idx].name,
                 reason |-> reason]
    /\ logs' = Append(logs, [type |-> "agent:failure", agent |-> agents[idx].name,
                              insertedAgents |-> <<>>])
    /\ results' = <<>>
    /\ events' = Emit(events, "mission:failed", NoName)
    /\ pc' = "exec_returned"
    /\ UNCHANGED <<summary, agentBlueprints, idx, prompt, engineRuns>>

\* Mutant of ExhaustAgent: the failure pushes the failed agent's result to
\* mission.results.
ExhaustAgentPushesResult(reason, last) ==
    /\ failureReason' = reason
    /\ attemptIndex' = attemptIndex + 1
    /\ lastResult' = last
    /\ agents' = [agents EXCEPT ![idx].status = "failed"]
    /\ status' = "failed"
    /\ error' = [isNull |-> FALSE, kind |-> "agent_exhausted", agent |-> agents[idx].name,
                 reason |-> reason]
    /\ logs' = Append(logs, [type |-> "agent:failure", agent |-> agents[idx].name,
                              insertedAgents |-> <<>>])
    /\ results' = Append(results, agents[idx].id)
    /\ events' = Emit(events, "mission:failed", NoName)
    /\ pc' = "exec_returned"
    /\ UNCHANGED <<summary, agentBlueprints, idx, prompt, engineRuns>>

\* The attempt budget is exhausted: the agent and the mission are marked
\* failed and #executeMission returns (orchestrator.js 491-514).
ExhaustAgent(reason, last) ==
    LET agent == agents[idx]
        failed ==
            [agent EXCEPT !.status = "failed",
                          !.result = IF agent.result = NoResult /\ last # NoResult
                                     THEN last ELSE agent.result]
    IN  /\ failureReason' = reason
        /\ attemptIndex' = attemptIndex + 1
        /\ lastResult' = last
        /\ agents' = [agents EXCEPT ![idx] = failed]
        /\ status' = "failed"
        /\ error' = [isNull |-> FALSE, kind |-> "agent_exhausted", agent |-> agent.name,
                     reason |-> reason]
        /\ logs' = Append(logs, [type |-> "agent:failure", agent |-> agent.name,
                                  insertedAgents |-> <<>>])
        /\ events' = Emit(events, "mission:failed", NoName)
        /\ pc' = "exec_returned"
        /\ UNCHANGED <<summary, agentBlueprints, results, idx, prompt, engineRuns>>

\* A failed attempt: the counter is incremented and the while-loop either
\* goes round or ends without success.
AttemptFailed(reason, last) ==
    IF attemptIndex + 1 < MAX_AGENT_ATTEMPTS
    THEN RetryAttempt(reason, last)
    ELSE ExhaustAgent(reason, last)

\* The agent's engine run rejects (orchestrator.js 420-429).
AgentRunRejects ==
    /\ pc = "agent_run"
    /\ settled' = [kind |-> "rejected"]
    /\ UNCHANGED <<activeChild, planVars>>
    /\ AttemptFailed("Codex runner error", lastResult)

\* The agent's engine run resolves and the attempt fails: non-zero exit code,
\* no directive, or a directive that is not accepted (orchestrator.js 430-468).
AgentRunResolvesFailing ==
    /\ pc = "agent_run"
    /\ \E o \in AgentOutcomes :
        /\ o.kind = "resolved"
        /\ LET out == AttemptOutcome(agents, agentBlueprints, agents[idx], idx, o)
           IN  /\ ~out.ok
               /\ settled' = o
               /\ activeChild' = NoChild
               /\ AttemptFailed(out.reason, CaptureResult(o))
    /\ UNCHANGED planVars

\* The agent's engine run resolves and the attempt succeeds: the agent is
\* finalized as completed and agent:finished is emitted; pc = "agent_finished"
\* is the flow inside that emit, where the listeners observe the mission
\* (orchestrator.js 430-484).
AgentRunResolvesSucceeding ==
    /\ pc = "agent_run"
    /\ \E o \in AgentOutcomes :
        /\ o.kind = "resolved"
        /\ LET out == AttemptOutcome(agents, agentBlueprints, agents[idx], idx, o)
           IN  /\ out.ok
               /\ Len(out.agents) <= MaxQueue
               /\ settled' = o
               /\ activeChild' = NoChild
               /\ lastResult' = CaptureResult(o)
               /\ agents' = FinalizeAgent(out.agents, idx, o)
               /\ logs' = IF out.inserted > 0
                          THEN Append(logs, IterationQueued(agents[idx], out.agents, idx,
                                                            out.inserted))
                          ELSE logs
               /\ results' = Append(results, agents[idx].id)
               /\ events' = Emit(events, "agent:finished", agents[idx].id)
               /\ pc' = "agent_finished"
    /\ UNCHANGED <<status, error, summary, agentBlueprints, planVars, idx, attemptIndex,
                   failureReason, prompt, engineRuns>>

\* After the emit of agent:finished the while-loop is left and the for-loop
\* goes on with the next index (orchestrator.js 486-489, 516-519, 388-419).
AgentFinished ==
    /\ pc = "agent_finished"
    /\ ContinueLoop(agents, idx + 1, events, activeChild)
    /\ UNCHANGED <<status, error, summary, agentBlueprints, results, logs, planVars,
                   settled>>

\* ensureInactive has returned before an agent retry: the next engine run is
\* issued with the corrective block (orchestrator.js 408-419).
AgentEnsureInactiveReturns ==
    /\ pc = "agent_ensure"
    /\ prompt' = BuildAgentPrompt(agents[idx], attemptIndex, failureReason)
    /\ engineRuns' = engineRuns + 1
    /\ activeChild' = Child
    /\ pc' = "agent_run"
    /\ UNCHANGED <<status, error, missionData, events, planVars, execVars, settled>>

\* #executeMission returned: createMission marks the mission completed, emits
\* mission:completed and returns the mission (orchestrator.js 197-200, 208).
ExecuteMissionReturned ==
    /\ pc = "exec_returned"
    /\ status' = "completed"
    /\ events' = Emit(events, "mission:completed", NoName)
    /\ pc' = "returned"
    /\ UNCHANGED <<error, missionData, planVars, execVars, prompt, activeChild,
                   engineRuns, settled>>

\* ------------------------------------------------------- the specification

\* One mission driven through createMission, the engine seen through its
\* interface.
Next ==
    \/ CreateMissionInvalidGoal /\ UNCHANGED <<engineVars, runnerVars, logVars, pureVars, streamVars>>
    \/ CreateMission /\ UNCHANGED <<engineVars, runnerVars, logVars, pureVars, streamVars>>
    \/ PlanRunRejects /\ UNCHANGED <<engineVars, runnerVars, logVars, pureVars, streamVars>>
    \/ PlanRunResolvesWithoutPlan /\ UNCHANGED <<engineVars, runnerVars, logVars, pureVars, streamVars>>
    \/ PlanRunResolvesWithPlan /\ UNCHANGED <<engineVars, runnerVars, logVars, pureVars, streamVars>>
    \/ PlanEnsureInactiveReturns /\ UNCHANGED <<engineVars, runnerVars, logVars, pureVars, streamVars>>
    \/ PlanMissionThrew /\ UNCHANGED <<engineVars, runnerVars, logVars, pureVars, streamVars>>
    \/ PlanMissionReturned /\ UNCHANGED <<engineVars, runnerVars, logVars, pureVars, streamVars>>
    \/ AgentRunRejects /\ UNCHANGED <<engineVars, runnerVars, logVars, pureVars, streamVars>>
    \/ AgentRunResolvesFailing /\ UNCHANGED <<engineVars, runnerVars, logVars, pureVars, streamVars>>
    \/ AgentRunResolvesSucceeding /\ UNCHANGED <<engineVars, runnerVars, logVars, pureVars, streamVars>>
    \/ AgentFinished /\ UNCHANGED <<engineVars, runnerVars, logVars, pureVars, streamVars>>
    \/ AgentEnsureInactiveReturns /\ UNCHANGED <<engineVars, runnerVars, logVars, pureVars, streamVars>>
    \/ ExecuteMissionReturned /\ UNCHANGED <<engineVars, runnerVars, logVars, pureVars, streamVars>>

Spec == Init /\ [][Next]_vars

\* ------------------------------------------- the mission's diagnostic logs

\* label of #planMission: 'initial' or `retry-${attemptIndex}`
PlanLabel(k) == IF k = 0 THEN <<"initial">> ELSE <<"retry-", ToString(k)>>

\* An entry #planMission / #attemptPlan / #parsePlanCandidates pushes to
\* mission.logs: type is `plan:${label}:${kind}`; index is the candidate's
\* index (-1: the entry has none), data the exit code of the raw Run Result.
PlanLogEntry(label, kind, p, reason, data, index) ==
    [type |-> <<"plan">> \o label \o <<kind>>,
     prompt |-> p,
     reason |-> reason,
     data |-> data,
     index |-> index,
     agent |-> NoName,
     insertedAgents |-> <<>>]

\* The entries #attemptPlan pushes once its run resolved: the raw result, then
\* one candidate entry when the run gave candidate text (orchestrator.js
\* 265-269, 309-318).
RawAndCandidates(label, o) ==
    <<PlanLogEntry(label, "raw", NoPrompt, NoStr, o.exitCode, -1)>>
    \o (IF o.preview
        THEN <<PlanLogEntry(label, "candidate", NoPrompt, NoStr, NoStr, 0)>>
        ELSE <<>>)

\* plan:<label>:failure (orchestrator.js 230-234, 244-248)
PlanFailureEntry(label, reason) == PlanLogEntry(label, "failure", NoPrompt, reason, NoStr, -1)

\* plan:<label>:prompt (orchestrator.js 260)
PlanPromptEntry(label, p) == PlanLogEntry(label, "prompt", p, NoStr, NoStr, -1)

\* What the step pushed to mission.logs outside planning (iteration:queued,
\* agent:failure).
PushedToLogs ==
    [k \in 1..(Len(logs') - Len(logs)) |->
        LET entry == logs'[Len(logs) + k]
        IN  [type |-> <<entry.type>>,
             prompt |-> NoPrompt,
             reason |-> NoStr,
             data |-> NoStr,
             index |-> -1,
             agent |-> entry.agent,
             insertedAgents |-> entry.insertedAgents]]

\* agent.logs.push({type, ...}) on the agent at the cursor; the instances the
\* step created start with logs: [].
PushAgentLog(type) ==
    LET own == agents[idx].created
        pushed == [agentLogs EXCEPT ![own] = Append(agentLogs[own], type)]
    IN  agentLogs' = pushed \o [k \in 1..(Len(agents') - Len(agents)) |-> <<>>]

\* The planning and agent runs the log specifications let the engine give:
\* for planning a rejection, non-JSON prose with exit code 0, no output with
\* exit code 1, and a plan of the agent a alone or followed by an unnamed
\* agent, with exit code 0 and a mission_summary; for an agent a rejection,
\* no directive, continue, and a request_iteration of a that names no
\* follow-up.
InLogEnvironment(o) ==
    \/ o.kind = "rejected"
    \/ /\ "plan" \in DOMAIN o
       /\ \/ o.plan = NoPlan /\ <<o.exitCode, o.preview>> \in {<<"0", TRUE>>, <<"1", FALSE>>}
          \/ /\ o.plan # NoPlan
             /\ o.exitCode = "0"
             /\ o.plan.mission_summary = "S"
             /\ o.plan.summary = NoStr
             /\ o.plan.agents \in {<<[name |-> <<"a">>]>>,
                                   <<[name |-> <<"a">>], [name |-> NoName]>>}
    \/ /\ "directive" \in DOMAIN o
       /\ ~o.hadExecutionErrors
       /\ \/ o.directive = NoDirective /\ o.exitCode = "0"
          \/ /\ o.directive # NoDirective
             /\ o.directive.action \in {"continue", "request_iteration"}
             /\ o.directive.action = "request_iteration" => o.directive.target_agent = <<"a">>
             /\ o.directive.next_agent = NoName
             /\ o.directive.follow_up_agent = NoName

LogCreateMission ==
    /\ CreateMission
    /\ missionLog' = Append(missionLog, PlanPromptEntry(PlanLabel(0), prompt'))
    /\ UNCHANGED agentLogs

LogPlanRunRejects ==
    /\ PlanRunRejects
    /\ missionLog' = Append(missionLog,
                            PlanFailureEntry(PlanLabel(planAttemptIndex), planFailureReason'))
    /\ UNCHANGED agentLogs

LogPlanRunResolvesWithoutPlan ==
    /\ PlanRunResolvesWithoutPlan
    /\ InLogEnvironment(settled')
    /\ missionLog' = missionLog
                     \o RawAndCandidates(PlanLabel(planAttemptIndex), settled')
                     \o <<PlanFailureEntry(PlanLabel(planAttemptIndex), planFailureReason')>>
    /\ UNCHANGED agentLogs

LogPlanRunResolvesWithPlan ==
    /\ PlanRunResolvesWithPlan
    /\ InLogEnvironment(settled')
    /\ missionLog' = missionLog \o RawAndCandidates(PlanLabel(planAttemptIndex), settled')
    /\ agentLogs' = [k \in 1..Len(agents') |-> <<>>]

LogPlanEnsureInactiveReturns ==
    /\ PlanEnsureInactiveReturns
    /\ missionLog' = Append(missionLog, PlanPromptEntry(PlanLabel(planAttemptIndex), prompt'))
    /\ UNCHANGED agentLogs

LogAgentRunRejects ==
    /\ AgentRunRejects
    /\ PushAgentLog("interaction:error")
    /\ missionLog' = missionLog \o PushedToLogs

LogAgentRunResolvesFailing ==
    /\ AgentRunResolvesFailing
    /\ InLogEnvironment(settled')
    /\ PushAgentLog("interaction")
    /\ missionLog' = missionLog \o PushedToLogs

LogAgentRunResolvesSucceeding ==
    /\ AgentRunResolvesSucceeding
    /\ InLogEnvironment(settled')
    /\ Len(agents') <= MaxLoggedQueue
    /\ PushAgentLog("interaction")
    /\ missionLog' = missionLog \o PushedToLogs

\* The steps of createMission that push to no log.
LogUntouched(step) ==
    /\ step
    /\ UNCHANGED logVars

\* One mission whose planning may fail and whose agents all succeed at their
\* first attempt, mission.logs in full.
PlanLogNext ==
    \/ LogCreateMission /\ UNCHANGED <<engineVars, runnerVars, pureVars, streamVars>>
    \/ LogPlanRunRejects /\ UNCHANGED <<engineVars, runnerVars, pureVars, streamVars>>
    \/ LogPlanRunResolvesWithoutPlan /\ UNCHANGED <<engineVars, runnerVars, pureVars, streamVars>>
    \/ LogPlanRunResolvesWithPlan /\ UNCHANGED <<engineVars, runnerVars, pureVars, streamVars>>
    \/ LogPlanEnsureInactiveReturns /\ UNCHANGED <<engineVars, runnerVars, pureVars, streamVars>>
    \/ LogUntouched(PlanMissionThrew) /\ UNCHANGED <<engineVars, runnerVars, pureVars, streamVars>>
    \/ LogUntouched(PlanMissionReturned) /\ UNCHANGED <<engineVars, runnerVars, pureVars, streamVars>>
    \/ LogAgentRunResolvesSucceeding /\ UNCHANGED <<engineVars, runnerVars, pureVars, streamVars>>
    \/ LogUntouched(AgentFinished) /\ UNCHANGED <<engineVars, runnerVars, pureVars, streamVars>>
    \/ LogUntouched(ExecuteMissionReturned) /\ UNCHANGED <<engineVars, runnerVars, pureVars, streamVars>>

PlanLogSpec == Init /\ [][PlanLogNext]_vars

\* One mission planned at the first attempt whose agents may fail, mission.logs
\* and every agent's logs in full.
AgentLogNext ==
    \/ LogCreateMission /\ UNCHANGED <<engineVars, runnerVars, pureVars, streamVars>>
    \/ LogPlanRunResolvesWithPlan /\ UNCHANGED <<engineVars, runnerVars, pureVars, streamVars>>
    \/ LogUntouched(PlanMissionReturned) /\ UNCHANGED <<engineVars, runnerVars, pureVars, streamVars>>
    \/ LogAgentRunRejects /\ UNCHANGED <<engineVars, runnerVars, pureVars, streamVars>>
    \/ LogAgentRunResolvesFailing /\ UNCHANGED <<engineVars, runnerVars, pureVars, streamVars>>
    \/ LogAgentRunResolvesSucceeding /\ UNCHANGED <<engineVars, runnerVars, pureVars, streamVars>>
    \/ LogUntouched(AgentFinished) /\ UNCHANGED <<engineVars, runnerVars, pureVars, streamVars>>
    \/ LogUntouched(AgentEnsureInactiveReturns) /\ UNCHANGED <<engineVars, runnerVars, pureVars, streamVars>>
    \/ LogUntouched(ExecuteMissionReturned) /\ UNCHANGED <<engineVars, runnerVars, pureVars, streamVars>>

AgentLogSpec == Init /\ [][AgentLogNext]_vars

\* ------------------------------------------------- the subprocess engines

\* COMPLETION_EVENTS (codexRunner.js) / COMPLETION_EVENT_TYPES (index.js)
COMPLETION_EVENTS ==
    {"turn.completed", "thread.completed", "thread.failed", "thread.aborted", "thread.errored"}

\* timeoutMs: 0 (falsy, no timer) or a duration.
TimeoutValues == {0, 1}

ChildKinds == {"dies", "ignores"}

\* child.exitCode === null && child.signalCode === null
Alive == childExitCode = "null" /\ childSignalCode = "null"

\* child.kill(sig) on a child that has not exited: the signal is sent and
\* child.killed becomes true.
KillChild(path, sig) ==
    /\ delivered' = delivered \cup {sig}
    /\ childKilled' = TRUE
    /\ kills' = kills \cup {<<path, sig>>}

\* child.kill(sig) where the child may have exited already (kill() then sends
\* nothing and returns false).
KillIfRunning(path, sig) ==
    IF runPc = "awaiting_exit" THEN KillChild(path, sig) ELSE UNCHANGED killVars

\* A timer that is cleared when the run ends (clearTimeout on a set timer).
Cleared(t) == IF t = "armed" THEN "cleared" ELSE t

\* The ways the child can exit by itself: any exit code, no signal.
OwnExits == {<<c, "null">> : c \in {"0", "1"}}

\* The ways the child exits because of a signal it was sent.
SignalExits ==
    (IF "SIGKILL" \in delivered THEN {<<"null", "SIGKILL">>} ELSE {})
    \cup (IF "SIGTERM" \in delivered /\ childOnTerm = "dies"
          THEN {<<"null", "SIGTERM">>} ELSE {})

\* Mutant of CoercedExitCode: the process's exit code as it is.
CoercedExitCodeRaw(code, stopRequested, completionType) == code

\* runOnce: code ?? (completionStopRequested && result.completion ? 0 : null)
CoercedExitCode(code, stopRequested, completionType) ==
    IF code # "null" THEN code
    ELSE IF stopRequested /\ completionType # "null" THEN "0" ELSE "null"

\* Mutant of EffectiveExitCode: the process's exit code as it is.
EffectiveExitCodeRaw(code, afterCompletion, timeoutExpired) == code

\* runCodexProcess:
\* exitResult.code ?? (terminatedAfterCompletion && !timedOut ? 0 : exitResult.code)
EffectiveExitCode(code, afterCompletion, timeoutExpired) ==
    IF code # "null" THEN code
    ELSE IF afterCompletion /\ ~timeoutExpired THEN "0" ELSE code

\* ---- CodexRunner.runOnce

\* runOnce up to its await of the child's exit: the child is spawned and the
\* run timeout is armed when timeoutMs is truthy (codexRunner.js 71-228).
RunOnce ==
    /\ runPc = "idle"
    /\ \E timeoutMs \in TimeoutValues, onTerm \in ChildKinds :
          /\ childOnTerm' = onTerm
          /\ timer' = IF timeoutMs > 0 THEN "armed" ELSE "null"
    /\ engineFn' = "runOnce"
    /\ runPc' = "awaiting_exit"
    /\ UNCHANGED <<childExitCode, childSignalCode, killVars, completionTimer, completionKill,
                   timeoutKill, flagVars, abortSignal, streamed, runResult>>

\* rl.on('line') for a line that is a completion event, with
\* scheduleCompletionStop (codexRunner.js 145-150, 170-200).
OnLine ==
    /\ engineFn = "runOnce"
    /\ runPc = "awaiting_exit"
    /\ streamed < MaxCompletionEvents
    /\ streamed' = streamed + 1
    /\ \E type \in COMPLETION_EVENTS : completion' = type
    /\ IF completionTimer # "null" \/ childKilled
       THEN UNCHANGED <<completionStopRequested, completionTimer>>
       ELSE /\ completionStopRequested' = TRUE
            /\ completionTimer' = "armed"
    /\ UNCHANGED <<engineFn, runPc, childVars, killVars, completionKill, timer, timeoutKill,
                   completionDetected, terminatedAfterCompletion, timedOut, aborted,
                   abortSignal, runResult>>

\* The completionTimer callback: SIGTERM, and the force-kill timer is armed
\* (codexRunner.js 151-166).
CompletionStopFires ==
    /\ engineFn = "runOnce"
    /\ completionTimer = "armed"
    /\ completionTimer' = "fired"
    /\ KillIfRunning("completion", "SIGTERM")
    /\ completionKill' = "armed"
    /\ UNCHANGED <<engineFn, runPc, childVars, timer, timeoutKill, flagVars, abortSignal,
                   streamed, runResult>>

\* The force-kill timer of the completion path:
\* if (child.exitCode === null && !child.killed) child.kill('SIGKILL')
\* (codexRunner.js 157-165).
CompletionForceKillFires ==
    /\ engineFn = "runOnce"
    /\ completionKill = "armed"
    /\ completionKill' = "fired"
    /\ IF childExitCode = "null" /\ ~childKilled
       THEN KillIfRunning("completion", "SIGKILL")
       ELSE UNCHANGED killVars
    /\ UNCHANGED <<engineFn, runPc, childVars, completionTimer, timer, timeoutKill, flagVars,
                   abortSignal, streamed, runResult>>

\* The run timeout expires: 'timeout' is emitted, SIGTERM, and the force-kill
\* timer is armed (codexRunner.js 210-228).
TimeoutFires ==
    /\ engineFn = "runOnce"
    /\ timer = "armed"
    /\ timer' = "fired"
    /\ KillIfRunning("timeout", "SIGTERM")
    /\ timeoutKill' = "armed"
    /\ UNCHANGED <<engineFn, runPc, childVars, completionTimer, completionKill, flagVars,
                   abortSignal, streamed, runResult>>

\* The force-kill timer of the timeout path:
\* if (child.exitCode === null) child.kill('SIGKILL') (codexRunner.js 219-227).
TimeoutForceKillFires ==
    /\ engineFn = "runOnce"
    /\ timeoutKill = "armed"
    /\ timeoutKill' = "fired"
    /\ IF childExitCode = "null"
       THEN KillIfRunning("timeout", "SIGKILL")
       ELSE UNCHANGED killVars
    /\ UNCHANGED <<engineFn, runPc, childVars, completionTimer, completionKill, timer,
                   flagVars, abortSignal, streamed, runResult>>

\* The child's exit and the rest of runOnce: the timers are cleared, the exit
\* code is coerced and the Run Result returned (codexRunner.js 230-269).
RunOnceExit(st) ==
    /\ engineFn = "runOnce"
    /\ runPc = "awaiting_exit"
    /\ childExitCode' = st[1]
    /\ childSignalCode' = st[2]
    /\ timer' = Cleared(timer)
    /\ completionTimer' = Cleared(completionTimer)
    /\ runResult' = [exitCode |-> CoercedExitCode(st[1], completionStopRequested, completion),
                     signal |-> st[2],
                     completion |-> completion]
    /\ runPc' = "returned"
    /\ UNCHANGED <<engineFn, childOnTerm, killVars, completionKill, timeoutKill, flagVars,
                   abortSignal, streamed>>

\* The child exits by itself.
RunOnceChildExits == \E st \in OwnExits : RunOnceExit(st)

\* The child dies of a signal it was sent.
RunOnceChildKilled == \E st \in SignalExits : RunOnceExit(st)

\* ---- runCodexProcess

\* abortHandler (index.js 579-588)
AbortHandler ==
    IF Alive
    THEN /\ aborted' = TRUE
         /\ KillChild("abort", "SIGTERM")
    ELSE UNCHANGED <<aborted, killVars>>

\* runCodexProcess up to its await of the child's exit: the child is spawned,
\* the abort signal is looked at (an already aborted signal runs abortHandler
\* at once) and the timeout is armed (index.js 440-616).
RunCodexProcess ==
    /\ runPc = "idle"
    /\ \E timeoutMs \in TimeoutValues, onTerm \in ChildKinds,
          signal \in {"none", "idle", "aborted"} :
          /\ childOnTerm' = onTerm
          /\ timer' = IF timeoutMs > 0 THEN "armed" ELSE "null"
          /\ abortSignal' = signal
          /\ IF signal = "aborted" THEN AbortHandler ELSE UNCHANGED <<aborted, killVars>>
    /\ engineFn' = "runCodexProcess"
    /\ runPc' = "awaiting_exit"
    /\ UNCHANGED <<childExitCode, childSignalCode, completionTimer, completionKill,
                   timeoutKill, completionStopRequested, completionDetected,
                   terminatedAfterCompletion, completion, timedOut, streamed, runResult>>

\* requestCompletionTermination up to arming completionKillTimer
\* (index.js 484-495, 514-515).
RequestCompletionTermination(armedTimer) ==
    IF completionDetected
    THEN /\ UNCHANGED <<completionDetected, terminatedAfterCompletion>>
         /\ completionTimer' = armedTimer
    ELSE /\ completionDetected' = TRUE
         /\ terminatedAfterCompletion' = TRUE
         /\ completionTimer' = "armed"

\* child.stdout.on('data') for a chunk that ends a completion event's line
\* (index.js 528-572).
OnStdoutData ==
    /\ engineFn = "runCodexProcess"
    /\ runPc = "awaiting_exit"
    /\ streamed < MaxCompletionEvents
    /\ streamed' = streamed + 1
    /\ \E type \in COMPLETION_EVENTS : completion' = type
    /\ RequestCompletionTermination(completionTimer)
    /\ UNCHANGED <<engineFn, runPc, childVars, killVars, completionKill, timer, timeoutKill,
                   completionStopRequested, timedOut, aborted, abortSignal, runResult>>

\* scheduleKill, the completionKillTimer callback (index.js 496-513).
ScheduleKill ==
    /\ engineFn = "runCodexProcess"
    /\ completionTimer = "armed"
    /\ completionTimer' = "fired"
    /\ IF runPc = "awaiting_exit" /\ Alive
       THEN /\ KillChild("completion", "SIGTERM")
            /\ completionKill' = "armed"
       ELSE UNCHANGED <<killVars, completionKill>>
    /\ UNCHANGED <<engineFn, runPc, childVars, timer, timeoutKill, flagVars, abortSignal,
                   streamed, runResult>>

\* The force-kill timer scheduleKill arms (index.js 503-511).
ScheduleKillForceKillFires ==
    /\ engineFn = "runCodexProcess"
    /\ completionKill = "armed"
    /\ completionKill' = "fired"
    /\ IF runPc = "awaiting_exit" /\ Alive
       THEN KillChild("completion", "SIGKILL")
       ELSE UNCHANGED killVars
    /\ UNCHANGED <<engineFn, runPc, childVars, completionTimer, timer, timeoutKill, flagVars,
                   abortSignal, streamed, runResult>>

\* The caller's signal fires 'abort' while the listener is registered
\* (index.js 578-596).
AbortSignalled ==
    /\ engineFn = "runCodexProcess"
    /\ runPc = "awaiting_exit"
    /\ abortSignal = "idle"
    /\ abortSignal' = "aborted"
    /\ AbortHandler
    /\ UNCHANGED <<engineFn, runPc, childVars, timerVars, completionStopRequested,
                   completionDetected, terminatedAfterCompletion, completion, timedOut,
                   streamed, runResult>>

\* The timeout callback (index.js 600-615).
ProcessTimeoutFires ==
    /\ engineFn = "runCodexProcess"
    /\ timer = "armed"
    /\ timer' = "fired"
    /\ IF runPc = "awaiting_exit" /\ Alive
       THEN /\ timedOut' = TRUE
            /\ KillChild("timeout", "SIGTERM")
            /\ timeoutKill' = "armed"
       ELSE UNCHANGED <<timedOut, killVars, timeoutKill>>
    /\ UNCHANGED <<engineFn, runPc, childVars, completionTimer, completionKill,
                   completionStopRequested, completionDetected, terminatedAfterCompletion,
                   completion, aborted, abortSignal, streamed, runResult>>

\* The force-kill timer of the timeout callback (index.js 609-613).
ProcessTimeoutForceKillFires ==
    /\ engineFn = "runCodexProcess"
    /\ timeoutKill = "armed"
    /\ timeoutKill' = "fired"
    /\ IF runPc = "awaiting_exit" /\ Alive
       THEN KillChild("timeout", "SIGKILL")
       ELSE UNCHANGED killVars
    /\ UNCHANGED <<engineFn, runPc, childVars, completionTimer, completionKill, timer,
                   flagVars, abortSignal, streamed, runResult>>

\* The child's exit and the rest of runCodexProcess: the timers are cleared and
\* the abort listener removed; a trailing partial line that is a completion
\* event is parsed (requestCompletionTermination again); the effective exit
\* code is computed and the result returned (index.js 618-712).
ProcessExit(st) ==
    /\ engineFn = "runCodexProcess"
    /\ runPc = "awaiting_exit"
    /\ childExitCode' = st[1]
    /\ childSignalCode' = st[2]
    /\ timer' = Cleared(timer)
    /\ \E trailing \in {"null"} \cup (IF streamed < MaxCompletionEvents
                                      THEN COMPLETION_EVENTS ELSE {}) :
          /\ IF trailing = "null"
             THEN /\ completionTimer' = Cleared(completionTimer)
                  /\ UNCHANGED <<completionDetected, terminatedAfterCompletion, completion,
                                 streamed>>
             ELSE /\ RequestCompletionTermination(Cleared(completionTimer))
                  /\ completion' = trailing
                  /\ streamed' = streamed + 1
    /\ runResult' = [exitCode |-> EffectiveExitCode(st[1], terminatedAfterCompletion',
                                                     timedOut),
                     signal |-> st[2],
                     timedOut |-> timedOut,
                     aborted |-> aborted,
                     terminatedAfterCompletion |-> terminatedAfterCompletion',
                     completionType |-> completion']
    /\ runPc' = "returned"
    /\ UNCHANGED <<engineFn, childOnTerm, killVars, completionKill, timeoutKill,
                   completionStopRequested, timedOut, aborted, abortSignal>>

\* The child exits by itself.
ProcessChildExits == \E st \in OwnExits : ProcessExit(st)

\* The child dies of a signal it was sent.
ProcessChildKilled == \E st \in SignalExits : ProcessExit(st)

\* The timers of the engines: every armed timer fires unless it is cleared.
TimersFire ==
    \/ CompletionStopFires
    \/ CompletionForceKillFires
    \/ TimeoutFires
    \/ TimeoutForceKillFires
    \/ ScheduleKill
    \/ ScheduleKillForceKillFires
    \/ ProcessTimeoutFires
    \/ ProcessTimeoutForceKillFires

\* One run of an engine.
EngineNext ==
    \/ RunOnce /\ UNCHANGED <<missionVars, runnerVars, logVars, pureVars, streamVars>>
    \/ OnLine /\ UNCHANGED <<missionVars, runnerVars, logVars, pureVars, streamVars>>
    \/ CompletionStopFires /\ UNCHANGED <<missionVars, runnerVars, logVars, pureVars, streamVars>>
    \/ CompletionForceKillFires /\ UNCHANGED <<missionVars, runnerVars, logVars, pureVars, streamVars>>
    \/ TimeoutFires /\ UNCHANGED <<missionVars, runnerVars, logVars, pureVars, streamVars>>
    \/ TimeoutForceKillFires /\ UNCHANGED <<missionVars, runnerVars, logVars, pureVars, streamVars>>
    \/ RunOnceChildExits /\ UNCHANGED <<missionVars, runnerVars, logVars, pureVars, streamVars>>
    \/ RunOnceChildKilled /\ UNCHANGED <<missionVars, runnerVars, logVars, pureVars, streamVars>>
    \/ RunCodexProcess /\ UNCHANGED <<missionVars, runnerVars, logVars, pureVars, streamVars>>
    \/ OnStdoutData /\ UNCHANGED <<missionVars, runnerVars, logVars, pureVars, streamVars>>
    \/ ScheduleKill /\ UNCHANGED <<missionVars, runnerVars, logVars, pureVars, streamVars>>
    \/ ScheduleKillForceKillFires /\ UNCHANGED <<missionVars, runnerVars, logVars, pureVars, streamVars>>
    \/ AbortSignalled /\ UNCHANGED <<missionVars, runnerVars, logVars, pureVars, streamVars>>
    \/ ProcessTimeoutFires /\ UNCHANGED <<missionVars, runnerVars, logVars, pureVars, streamVars>>
    \/ ProcessTimeoutForceKillFires /\ UNCHANGED <<missionVars, runnerVars, logVars, pureVars, streamVars>>
    \/ ProcessChildExits /\ UNCHANGED <<missionVars, runnerVars, logVars, pureVars, streamVars>>
    \/ ProcessChildKilled /\ UNCHANGED <<missionVars, runnerVars, logVars, pureVars, streamVars>>

EngineSpec == Init /\ [][EngineNext]_vars

\* The event loop runs every timer that is armed, and a process dies of a
\* signal that kills it; a child need never exit by itself, stream an event,
\* and the caller need never abort.
EngineLiveSpec ==
    /\ EngineSpec
    /\ WF_vars(TimersFire /\ UNCHANGED <<missionVars, runnerVars, logVars, pureVars, streamVars>>)
    /\ WF_vars((RunOnceChildKilled \/ ProcessChildKilled) /\ UNCHANGED <<missionVars, runnerVars, logVars, pureVars, streamVars>>)

\* ---------------------------------------------- the output read line by line

\* The JSON texts a child writes on a line, with the event each parses to
\* (itemType and itemText are item.type and item.text); the text null parses
\* to the value null.
JsonLines ==
    ("{\"type\":\"thread.started\",\"thread_id\":\"t1\"}" :>
        [isNull |-> FALSE, type |-> "thread.started", thread_id |-> "t1",
         turn_id |-> NoStr, itemType |-> NoStr,
         itemText |-> NoStr, usage |-> NoStr])
    @@ ("{\"type\":\"turn.started\",\"thread_id\":\"t2\",\"turn_id\":\"u1\"}" :>
        [isNull |-> FALSE, type |-> "turn.started", thread_id |-> "t2",
         turn_id |-> "u1", itemType |-> NoStr,
         itemText |-> NoStr, usage |-> NoStr])
    @@ ("{\"type\":\"item.completed\",\"item\":{\"type\":\"agent_message\",\"text\":\"m\"}}" :>
        [isNull |-> FALSE, type |-> "item.completed", thread_id |-> NoStr,
         turn_id |-> NoStr, itemType |-> "agent_message",
         itemText |-> "m", usage |-> NoStr])
    @@ ("{\"type\":\"item.completed\",\"turn_id\":\"u2\",\"item\":{\"type\":\"agent_message\",\"text\":\"n\"}}" :>
        [isNull |-> FALSE, type |-> "item.completed", thread_id |-> NoStr,
         turn_id |-> "u2", itemType |-> "agent_message",
         itemText |-> "n", usage |-> NoStr])
    @@ ("{\"type\":\"item.completed\",\"item\":{\"type\":\"reasoning\",\"text\":\"r\"}}" :>
        [isNull |-> FALSE, type |-> "item.completed", thread_id |-> NoStr,
         turn_id |-> NoStr, itemType |-> "reasoning",
         itemText |-> "r", usage |-> NoStr])
    @@ ("{\"type\":\"turn.completed\",\"usage\":{\"tokens\":1}}" :>
        [isNull |-> FALSE, type |-> "turn.completed", thread_id |-> NoStr,
         turn_id |-> NoStr, itemType |-> NoStr,
         itemText |-> NoStr, usage |-> "tokens:1"])
    @@ ("{\"type\":\"turn.completed\",\"usage\":{\"tokens\":2}}" :>
        [isNull |-> FALSE, type |-> "turn.completed", thread_id |-> NoStr,
         turn_id |-> NoStr, itemType |-> NoStr,
         itemText |-> NoStr, usage |-> "tokens:2"])
    @@ ("{\"type\":\"thread.failed\",\"usage\":{\"tokens\":9}}" :>
        [isNull |-> FALSE, type |-> "thread.failed", thread_id |-> NoStr,
         turn_id |-> NoStr, itemType |-> NoStr,
         itemText |-> NoStr, usage |-> "tokens:9"])
    @@ ("null" :>
        [isNull |-> TRUE, type |-> NoStr, thread_id |-> NoStr,
         turn_id |-> NoStr, itemType |-> NoStr,
         itemText |-> NoStr, usage |-> NoStr])

\* The lines readline hands to runOnce: the JSON texts, a line of white space
\* and a line that is no JSON.
LineTexts == DOMAIN JsonLines \cup {" ", "not json"}

\* The pieces a chunk of runCodexProcess's stdout can hold before its line
\* feed: a whole line, or one of the two halves of the turn.completed text.
ChunkTexts == LineTexts \cup {"{\"type\":\"turn.compl", "eted\",\"usage\":{\"tokens\":1}}"}

\* (buffer + text).trim(): white space joins to nothing, the two halves join
\* to the turn.completed text, and any other two texts to a text that is no
\* JSON.
Joined(buffer, text) ==
    IF buffer \in {"", " "} THEN (IF text = " " THEN "" ELSE text)
    ELSE IF text = " " THEN buffer
    ELSE IF buffer = "{\"type\":\"turn.compl" /\ text = "eted\",\"usage\":{\"tokens\":1}}"
    THEN "{\"type\":\"turn.completed\",\"usage\":{\"tokens\":1}}"
    ELSE "not json"

\* Mutant of the try block: the turn id of the first event that has one is
\* kept, as for the thread id.
HandleEventKeepsFirstTurn(event) ==
    /\ resultEvents' = Append(resultEvents, event)
    /\ threadId' = IF event.thread_id # NoStr /\ (streamFn = "runCodexProcess" \/ threadId = NoStr)
                   THEN event.thread_id ELSE threadId
    /\ turnId' = IF event.turn_id # NoStr /\ turnId = NoStr THEN event.turn_id ELSE turnId
    /\ lastAgentMessage' = IF /\ event.type = "item.completed"
                              /\ event.itemType = "agent_message"
                              /\ event.itemText # NoStr
                           THEN event.itemText ELSE lastAgentMessage
    /\ usage' = IF event.type = "turn.completed" /\ event.usage # NoStr
                THEN event.usage ELSE usage
    /\ lastCompletionType' = IF event.type \in COMPLETION_EVENTS THEN event.type ELSE lastCompletionType
    /\ completionSeen' = (completionSeen \/ event.type \in COMPLETION_EVENTS)

\* The body of the try block behind JSON.parse for an event that is an
\* object (codexRunner.js 176-196, index.js 540-566): the event is pushed
\* (counted and summarized; the model stays below MAX_JSON_EVENT_SUMMARIES)
\* and the accumulators are updated; runOnce keeps the first thread id,
\* runCodexProcess the last.
HandleEvent(event) ==
    /\ resultEvents' = Append(resultEvents, event)
    /\ threadId' = IF event.thread_id # NoStr /\ (streamFn = "runCodexProcess" \/ threadId = NoStr)
                   THEN event.thread_id ELSE threadId
    /\ turnId' = IF event.turn_id # NoStr THEN event.turn_id ELSE turnId
    /\ lastAgentMessage' = IF /\ event.type = "item.completed"
                              /\ event.itemType = "agent_message"
                              /\ event.itemText # NoStr
                           THEN event.itemText ELSE lastAgentMessage
    /\ usage' = IF event.type = "turn.completed" /\ event.usage # NoStr
                THEN event.usage ELSE usage
    /\ lastCompletionType' = IF event.type \in COMPLETION_EVENTS THEN event.type ELSE lastCompletionType
    /\ completionSeen' = (completionSeen \/ event.type \in COMPLETION_EVENTS)

\* Mutant of the catch block: the events and accumulators gathered so far are
\* dropped with the line.
CatchParseErrorDropsEvents(line, report) ==
    /\ anomalies' = IF report THEN Append(anomalies, line) ELSE anomalies
    /\ resultEvents' = <<>>
    /\ threadId' = NoStr
    /\ turnId' = NoStr
    /\ lastAgentMessage' = NoStr
    /\ UNCHANGED <<usage, lastCompletionType, completionSeen>>

\* The catch block behind JSON.parse: runOnce emits 'parse:error' and
\* runCodexProcess's data handler calls debugLog (report); the catch of the
\* trailing text is empty (index.js 665-667).
CatchParseError(line, report) ==
    /\ anomalies' = IF report THEN Append(anomalies, line) ELSE anomalies
    /\ UNCHANGED <<resultEvents, accumulators, completionSeen>>

\* try { JSON.parse(line) ... } catch { ... } on a line that is not empty.
\* The value null is pushed by runOnce before the read of event.type throws
\* into the catch block; runCodexProcess reads it with ?. and counts it.
TryParse(line, report) ==
    /\ attempted' = Append(attempted, line)
    /\ IF line \notin DOMAIN JsonLines
       THEN CatchParseError(line, report)
       ELSE IF JsonLines[line].isNull
       THEN /\ resultEvents' = Append(resultEvents, JsonLines[line])
            /\ anomalies' = IF streamFn = "runOnce" THEN Append(anomalies, line) ELSE anomalies
            /\ UNCHANGED <<accumulators, completionSeen>>
       ELSE /\ HandleEvent(JsonLines[line])
            /\ anomalies' = anomalies

\* Nothing is handed to JSON.parse.
NothingAttempted == UNCHANGED <<attempted, resultEvents, accumulators, completionSeen, anomalies>>

\* runOnce spawned the child and reads its stdout through readline.
RunOnceReads ==
    /\ streamPc = "idle"
    /\ streamFn' = "runOnce"
    /\ streamPc' = "running"
    /\ UNCHANGED <<isJsonStream, stdout, jsonBuffer>>
    /\ NothingAttempted

\* rl.on('line') of runOnce (codexRunner.js 170-200).
OnLineText ==
    /\ streamFn = "runOnce"
    /\ streamPc = "running"
    /\ Len(stdout) < MaxLines
    /\ \E line \in LineTexts :
          /\ stdout' = Append(stdout, <<line, TRUE>>)
          /\ IF Joined("", line) = "" THEN NothingAttempted
             ELSE TryParse(Joined("", line), TRUE)
    /\ UNCHANGED <<streamFn, streamPc, isJsonStream, jsonBuffer>>

\* The child of runOnce exits.
RunOnceStreamEnds ==
    /\ streamFn = "runOnce"
    /\ streamPc = "running"
    /\ streamPc' = "exited"
    /\ UNCHANGED <<streamFn, isJsonStream, stdout, jsonBuffer>>
    /\ NothingAttempted

\* runCodexProcess spawned the child, with or without --json in its
\* arguments (index.js 471).
RunCodexProcessReads ==
    /\ streamPc = "idle"
    /\ streamFn' = "runCodexProcess"
    /\ streamPc' = "running"
    /\ isJsonStream' \in BOOLEAN
    /\ UNCHANGED <<stdout, jsonBuffer>>
    /\ NothingAttempted

\* child.stdout.on('data') of runCodexProcess (index.js 528-572), for a chunk
\* with at most one line feed, at its end.
OnStdoutChunk ==
    /\ streamFn = "runCodexProcess"
    /\ streamPc = "running"
    /\ Len(stdout) < MaxLines
    /\ \E text \in ChunkTexts, newline \in BOOLEAN :
          /\ stdout' = Append(stdout, <<text, newline>>)
          /\ IF ~isJsonStream
             THEN UNCHANGED jsonBuffer /\ NothingAttempted
             ELSE IF ~newline
             THEN jsonBuffer' = Joined(jsonBuffer, text) /\ NothingAttempted
             ELSE /\ jsonBuffer' = ""
                  /\ IF Joined(jsonBuffer, text) = "" THEN NothingAttempted
                     ELSE TryParse(Joined(jsonBuffer, text), TRUE)
    /\ UNCHANGED <<streamFn, streamPc, isJsonStream>>

\* The child of runCodexProcess exits; the text left in jsonBuffer is parsed,
\* a failure ignored (index.js 637-668).
ProcessStreamEnds ==
    /\ streamFn = "runCodexProcess"
    /\ streamPc = "running"
    /\ streamPc' = "exited"
    /\ IF isJsonStream /\ jsonBuffer # ""
       THEN TryParse(jsonBuffer, FALSE)
       ELSE NothingAttempted
    /\ UNCHANGED <<streamFn, isJsonStream, stdout, jsonBuffer>>

StreamNext ==
    \/ RunOnceReads /\ UNCHANGED <<missionVars, engineVars, runnerVars, logVars, pureVars>>
    \/ OnLineText /\ UNCHANGED <<missionVars, engineVars, runnerVars, logVars, pureVars>>
    \/ RunOnceStreamEnds /\ UNCHANGED <<missionVars, engineVars, runnerVars, logVars, pureVars>>
    \/ RunCodexProcessReads /\ UNCHANGED <<missionVars, engineVars, runnerVars, logVars, pureVars>>
    \/ OnStdoutChunk /\ UNCHANGED <<missionVars, engineVars, runnerVars, logVars, pureVars>>
    \/ ProcessStreamEnds /\ UNCHANGED <<missionVars, engineVars, runnerVars, logVars, pureVars>>

\* One run of an engine reading what its child writes.
StreamSpec == Init /\ [][StreamNext]_vars

\* --------------------------------------------------- the directive parser

\* The marker of #extractControlDirective.
Marker == "CONTROL_JSON:"

\* A code fence line (three backquotes, with or without json behind them).
Fence == "<fence>"

\* The JSON texts of the model whose value is an object, with the directive
\* they parse to.
ObjectTexts ==
    [text \in {"{\"action\":\"continue\"}", "{\"status\":\"continue\"}",
               "{\"action\":\"request_iteration\",\"target_agent\":\"a\"}",
               "{\"action\":\"deploy\"}", "{\"action\":\"deploy\",\"status\":\"continue\"}",
               "{}"} |->
        [action |-> CASE text = "{\"action\":\"continue\"}" -> "continue"
                      [] text = "{\"action\":\"request_iteration\",\"target_agent\":\"a\"}"
                            -> "request_iteration"
                      [] text \in {"{\"action\":\"deploy\"}",
                                   "{\"action\":\"deploy\",\"status\":\"continue\"}"} -> "deploy"
                      [] OTHER -> NoStr,
         status |-> IF text \in {"{\"status\":\"continue\"}",
                                 "{\"action\":\"deploy\",\"status\":\"continue\"}"}
                    THEN "continue" ELSE NoStr,
         target_agent |-> IF text = "{\"action\":\"request_iteration\",\"target_agent\":\"a\"}"
                          THEN <<"a">> ELSE NoName,
         next_agent |-> NoName,
         follow_up_agent |-> NoName]]

\* The JSON texts whose value is no object: a number.
ScalarTexts == {"5"}

\* The tokens of a message: prose without brace or marker, the marker, a
\* fence, and complete JSON texts; tokens are separated by white space.
Tokens == {"prose", Marker, Fence} \cup ScalarTexts \cup DOMAIN ObjectTexts

\* The JSON texts of a planning run: a plan written as the whole line, plans
\* and an object whose agents is no list as message texts, and the event lines
\* of the JSON stream, each with its value (an absent text is NoText, an array
\* [array |-> ...], a string [string |-> ...]).
PlanObjectTexts ==
    ("{\"agents\":[{\"name\":\"a\"}]}" :>
        [agents |-> [array |-> <<"a">>]])
    @@ ("{\"agents\":[{\"name\":\"b\"}]}" :>
        [agents |-> [array |-> <<"b">>]])
    @@ ("{\"agents\":[{\"name\":\"s\"}]}" :>
        [agents |-> [array |-> <<"s">>]])
    @@ ("{\"agents\":[]}" :>
        [agents |-> [array |-> <<>>]])
    @@ ("{\"agents\":\"a\"}" :>
        [agents |-> [string |-> "a"]])
    @@ ("{\"type\":\"item.completed\",\"item\":{\"type\":\"agent_message\",\"text\":\"I will plan.\"}}" :>
        [type |-> "item.completed",
         item |-> [type |-> "agent_message", text |-> <<"prose">>,
                   content |-> <<>>]])
    @@ ("{\"type\":\"item.completed\",\"item\":{\"type\":\"agent_message\",\"text\":\"{\\\"agents\\\":[{\\\"name\\\":\\\"a\\\"}]}\"}}" :>
        [type |-> "item.completed",
         item |-> [type |-> "agent_message", text |-> <<"{\"agents\":[{\"name\":\"a\"}]}">>,
                   content |-> <<>>]])
    @@ ("{\"type\":\"item.completed\",\"item\":{\"type\":\"agent_message\",\"text\":\"Plan: {\\\"agents\\\":[{\\\"name\\\":\\\"b\\\"}]}\"}}" :>
        [type |-> "item.completed",
         item |-> [type |-> "agent_message", text |-> <<"prose", "{\"agents\":[{\"name\":\"b\"}]}">>,
                   content |-> <<>>]])
    @@ ("{\"type\":\"item.completed\",\"item\":{\"type\":\"reasoning\",\"text\":\"{\\\"agents\\\":[{\\\"name\\\":\\\"b\\\"}]}\"}}" :>
        [type |-> "item.completed",
         item |-> [type |-> "reasoning", text |-> <<"{\"agents\":[{\"name\":\"b\"}]}">>,
                   content |-> <<>>]])
    @@ ("{\"type\":\"item.completed\",\"item\":{\"type\":\"agent_message\",\"content\":[{\"type\":\"text\",\"text\":\"Plan:\"},{\"type\":\"image\"},{\"type\":\"text\",\"text\":\"{\\\"agents\\\":[]}\"}]}}" :>
        [type |-> "item.completed",
         item |-> [type |-> "agent_message", text |-> NoText,
                   content |-> <<[type |-> "text", text |-> <<"prose">>], [type |-> "image", text |-> NoText], [type |-> "text", text |-> <<"{\"agents\":[]}">>]>>]])
    @@ ("{\"type\":\"item.completed\",\"item\":{\"type\":\"agent_message\",\"text\":\"{\\\"agents\\\":\\\"a\\\"}\"}}" :>
        [type |-> "item.completed",
         item |-> [type |-> "agent_message", text |-> <<"{\"agents\":\"a\"}">>,
                   content |-> <<>>]])
    @@ ("{\"type\":\"item.completed\",\"item\":{\"type\":\"agent_message\",\"text\":\" \"}}" :>
        [type |-> "item.completed",
         item |-> [type |-> "agent_message", text |-> <<>>,
                   content |-> <<>>]])

\* The lines a planning run's child writes: the event lines, the plan written
\* as a line of its own, and a line of prose.
PlanLineTexts ==
    {"prose", "{\"agents\":[{\"name\":\"s\"}]}"}
    \cup {t \in DOMAIN PlanObjectTexts : "type" \in DOMAIN PlanObjectTexts[t]}

\* The texts with a brace in them.
HasBrace(tok) == tok \in DOMAIN ObjectTexts \cup DOMAIN PlanObjectTexts

\* The messages an agent run can end with.
Messages == SeqsUpTo(Tokens, MaxTextLen)

\* null as the value of safeJsonParse.
NoJson == [isNull |-> TRUE]

\* JSON.parse(candidate): the value of a text that is one JSON text, and a
\* SyntaxError (NoJson here, no text of the model being `null`) otherwise.
JsonParse(candidate) ==
    IF Len(candidate) # 1 THEN NoJson
    ELSE IF candidate[1] \in DOMAIN ObjectTexts THEN ObjectTexts[candidate[1]]
    ELSE IF candidate[1] \in DOMAIN PlanObjectTexts THEN PlanObjectTexts[candidate[1]]
    ELSE IF candidate[1] \in ScalarTexts THEN [scalar |-> candidate[1]]
    ELSE NoJson

\* safeJsonParse (orchestrator.js 11-32): the payload trimmed, a surrounding
\* fence stripped, JSON.parse, and on failure the slice from the first '{' to
\* the last '}'.
SafeJsonParse(payload) ==
    IF payload = NoText \/ payload = <<>> THEN NoJson
    ELSE
    LET fenceMatch == Len(payload) >= 2 /\ payload[1] = Fence /\ payload[Len(payload)] = Fence
        candidate == IF fenceMatch THEN SubSeq(payload, 2, Len(payload) - 1) ELSE payload
        braces == {i \in DOMAIN candidate : HasBrace(candidate[i])}
    IN  IF JsonParse(candidate) # NoJson THEN JsonParse(candidate)
        ELSE IF braces # {}
        THEN LET start == CHOOSE i \in braces : \A j \in braces : i <= j
                 end == CHOOSE i \in braces : \A j \in braces : j <= i
             IN  JsonParse(SubSeq(candidate, start, end))
        ELSE NoJson

\* Mutant of #extractControlDirective: the first marker is used (indexOf).
ExtractControlDirectiveFirstMarker(msg) ==
    IF msg = NoText \/ msg = <<>> THEN NoDirective
    ELSE
    LET markers == {i \in DOMAIN msg : msg[i] = Marker}
    IN  IF markers = {} THEN NoDirective
        ELSE
        LET markerIndex == CHOOSE i \in markers : \A j \in markers : i <= j
            jsonCandidate == SubSeq(msg, markerIndex + 1, Len(msg))
            parsed == SafeJsonParse(jsonCandidate)
        IN  IF jsonCandidate = <<>> THEN NoDirective
            ELSE IF parsed # NoJson /\ "scalar" \notin DOMAIN parsed THEN parsed
            ELSE NoDirective

\* Mutant of #extractControlDirective: a message is parsed once, and a second
\* call on it gives nothing.
ExtractControlDirectiveOnce(msg) ==
    IF msg = NoText \/ msg = <<>> \/ extracted # <<>> THEN NoDirective
    ELSE
    LET markers == {i \in DOMAIN msg : msg[i] = Marker}
    IN  IF markers = {} THEN NoDirective
        ELSE
        LET markerIndex == CHOOSE i \in markers : \A j \in markers : j <= i
            jsonCandidate == SubSeq(msg, markerIndex + 1, Len(msg))
            parsed == SafeJsonParse(jsonCandidate)
        IN  IF jsonCandidate = <<>> THEN NoDirective
            ELSE IF parsed # NoJson /\ "scalar" \notin DOMAIN parsed THEN parsed
            ELSE NoDirective

\* #extractControlDirective (orchestrator.js 522-541): the text behind the
\* last marker, trimmed, parsed by safeJsonParse, kept when it is an object.
ExtractControlDirective(msg) ==
    IF msg = NoText \/ msg = <<>> THEN NoDirective
    ELSE
    LET markers == {i \in DOMAIN msg : msg[i] = Marker}
    IN  IF markers = {} THEN NoDirective
        ELSE
        LET markerIndex == CHOOSE i \in markers : \A j \in markers : j <= i
            jsonCandidate == SubSeq(msg, markerIndex + 1, Len(msg))
            parsed == SafeJsonParse(jsonCandidate)
        IN  IF jsonCandidate = <<>> THEN NoDirective
            ELSE IF parsed # NoJson /\ "scalar" \notin DOMAIN parsed THEN parsed
            ELSE NoDirective

\* this.#extractControlDirective(directiveSource), first call on the message of
\* a run (orchestrator.js 447-449); a run without any message gives null.
ExtractFromMessage ==
    /\ message = NoText
    /\ extracted = <<>>
    /\ \E msg \in Messages \cup {NoText} :
          /\ message' = msg
          /\ extracted' = <<ExtractControlDirective(msg)>>
    /\ UNCHANGED <<rawPrompt, builtPrompt, promptPayload, sideVars>>

\* #extractControlDirective called again on the same message.
ExtractAgain ==
    /\ extracted # <<>>
    /\ Len(extracted) < MaxParses
    /\ extracted' = Append(extracted, ExtractControlDirective(message))
    /\ UNCHANGED <<message, rawPrompt, builtPrompt, promptPayload, sideVars>>

DirectiveNext ==
    \/ ExtractFromMessage /\ UNCHANGED <<missionVars, engineVars, runnerVars, logVars, streamVars>>
    \/ ExtractAgain /\ UNCHANGED <<missionVars, engineVars, runnerVars, logVars, streamVars>>

\* The directive parser called on the messages of the model.
DirectiveSpec == Init /\ [][DirectiveNext]_vars

\* --------------------------------------------------- the prompt sanitizer

\* The characters of an instruction: a letter, a space, a line feed and a
\* carriage return.
Chars == {"a", " ", "LF", "CR"}

\* The instructions a caller composes.
RawPrompts == SeqsUpTo(Chars, MaxPromptLen)

\* Mutant of sanitizePrompt: the regular expression without its g flag, only
\* the first line break is replaced.
RECURSIVE SanitizePromptFirstOnly(_)
SanitizePromptFirstOnly(input) ==
    IF input = NoText \/ input = <<>> THEN input
    ELSE IF Len(input) >= 2 /\ input[1] = "CR" /\ input[2] = "LF"
    THEN <<" ">> \o SubSeq(input, 3, Len(input))
    ELSE IF input[1] = "LF"
    THEN <<" ">> \o SubSeq(input, 2, Len(input))
    ELSE <<input[1]>> \o SanitizePromptFirstOnly(Tail(input))

\* sanitizePrompt (promptUtils.js): input.replace(/\r?\n/g, ' '), the scan of
\* the regular expression from left to right; what is no string is returned
\* as it is.
RECURSIVE SanitizePrompt(_)
SanitizePrompt(input) ==
    IF input = NoText \/ input = <<>> THEN input
    ELSE IF Len(input) >= 2 /\ input[1] = "CR" /\ input[2] = "LF"
    THEN <<" ">> \o SanitizePrompt(SubSeq(input, 3, Len(input)))
    ELSE IF input[1] = "LF"
    THEN <<" ">> \o SanitizePrompt(Tail(input))
    ELSE <<input[1]>> \o SanitizePrompt(Tail(input))

\* buildAgentPrompt / buildMissionPlanPrompt: the prompt composed is sanitized
\* before it is returned (orchestrator.js 85-88, 144-146).
BuildPrompt ==
    /\ rawPrompt = NoText
    /\ \E raw \in RawPrompts \ {<<>>} :
          /\ rawPrompt' = raw
          /\ builtPrompt' = SanitizePrompt(raw)
    /\ UNCHANGED <<message, extracted, promptPayload, sideVars>>

\* runOnce called by the orchestrator with the prompt built: it is sanitized
\* again and becomes the payload (codexRunner.js 95-101).
RunOnceWithBuiltPrompt ==
    /\ builtPrompt # NoText
    /\ promptPayload = NoText
    /\ promptPayload' = SanitizePrompt(builtPrompt)
    /\ UNCHANGED <<message, extracted, rawPrompt, builtPrompt, sideVars>>

\* runOnce called with a prompt as the caller wrote it; an empty or absent
\* prompt is falsy and gives no payload (codexRunner.js 95-101).
RunOnceWithRawPrompt ==
    /\ rawPrompt = NoText
    /\ \E raw \in RawPrompts :
          /\ rawPrompt' = raw
          /\ promptPayload' = IF raw = <<>> THEN NoText ELSE SanitizePrompt(raw)
    /\ UNCHANGED <<message, extracted, builtPrompt, sideVars>>

SanitizeNext ==
    \/ BuildPrompt /\ UNCHANGED <<missionVars, engineVars, runnerVars, logVars, streamVars>>
    \/ RunOnceWithBuiltPrompt /\ UNCHANGED <<missionVars, engineVars, runnerVars, logVars, streamVars>>
    \/ RunOnceWithRawPrompt /\ UNCHANGED <<missionVars, engineVars, runnerVars, logVars, streamVars>>

\* The instructions of the model on their way to the child's stdin.
SanitizeSpec == Init /\ [][SanitizeNext]_vars

\* ------------------------------------------------- the plan candidates

\* The result runOnce builds from the lines its child wrote: every line is
\* added to stdout, the lines that parse become the events, and the text of
\* the last completed agent message is the final message (codexRunner.js
\* 170-190).
RunResultOf(lines) ==
    LET parsed == [i \in DOMAIN lines |-> JsonParse(<<lines[i]>>)]
        isMessage(i) == /\ parsed[i] # NoJson
                        /\ "type" \in DOMAIN parsed[i]
                        /\ parsed[i].type = "item.completed"
                        /\ parsed[i].item.type = "agent_message"
                        /\ parsed[i].item.text # NoText
        messages == {i \in DOMAIN lines : isMessage(i)}
    IN  [stdout |-> lines,
         events |-> SelectSeq(parsed, LAMBDA e : e # NoJson),
         lastAgentMessage |->
            IF messages = {} THEN NoText
            ELSE parsed[CHOOSE i \in messages : \A j \in messages : j <= i].item.text]

\* addCandidate: a string that is not blank is pushed, trimmed.
AddCandidate(candidates, value) ==
    IF value # NoText /\ value # <<>> THEN Append(candidates, value) ELSE candidates

\* textBlocks.join of the text blocks of item.content (<<>>: no text block).
RECURSIVE JoinTextBlocks(_)
JoinTextBlocks(content) ==
    IF content = <<>> THEN <<>>
    ELSE IF Head(content).type = "text" /\ Head(content).text # NoText
    THEN Head(content).text \o JoinTextBlocks(Tail(content))
    ELSE JoinTextBlocks(Tail(content))

\* The loop over planResult.events: a completed agent message gives its text
\* and then the text blocks of its content, joined.
RECURSIVE EventCandidates(_, _)
EventCandidates(candidates, evs) ==
    IF evs = <<>> THEN candidates
    ELSE LET event == Head(evs)
             isMessage == /\ "type" \in DOMAIN event
                          /\ event.type = "item.completed"
                          /\ event.item.type = "agent_message"
             withText == AddCandidate(candidates, event.item.text)
             hasBlocks == \E k \in DOMAIN event.item.content :
                              /\ event.item.content[k].type = "text"
                              /\ event.item.content[k].text # NoText
             withBlocks == IF hasBlocks
                           THEN AddCandidate(withText, JoinTextBlocks(event.item.content))
                           ELSE withText
         IN  EventCandidates(IF isMessage THEN withBlocks ELSE candidates, Tail(evs))

\* The candidates of #parsePlanCandidates in the order they are collected.
CollectCandidates(result) ==
    AddCandidate(EventCandidates(AddCandidate(<<>>, result.lastAgentMessage), result.events),
                 result.stdout)

\* parsed && Array.isArray(parsed.agents)
IsPlan(parsed) ==
    parsed # NoJson /\ "agents" \in DOMAIN parsed /\ "array" \in DOMAIN parsed.agents

\* Mutant of #parsePlanCandidates: the last candidate that parses is the plan.
ParsePlanCandidatesLastWins(result) ==
    LET candidates == CollectCandidates(result)
        accepted == {k \in DOMAIN candidates : IsPlan(SafeJsonParse(candidates[k]))}
        last == CHOOSE k \in accepted : \A j \in accepted : j <= k
    IN  [logged |-> [k \in DOMAIN candidates |-> [index |-> k - 1, preview |-> candidates[k]]],
         plan |-> IF accepted = {} THEN NoPlan ELSE SafeJsonParse(candidates[last]),
         preview |-> IF accepted # {} THEN candidates[last]
                     ELSE IF candidates # <<>> THEN candidates[1] ELSE NoText]

\* #parsePlanCandidates (orchestrator.js 281-329): every candidate is pushed
\* to mission.logs with its index, then the first candidate that parses to
\* an object with an array under agents is returned with its preview; with
\* none, the plan is null and the preview is the first candidate's.
ParsePlanCandidates(result) ==
    LET candidates == CollectCandidates(result)
        accepted == {k \in DOMAIN candidates : IsPlan(SafeJsonParse(candidates[k]))}
        first == CHOOSE k \in accepted : \A j \in accepted : k <= j
    IN  [logged |-> [k \in DOMAIN candidates |-> [index |-> k - 1, preview |-> candidates[k]]],
         plan |-> IF accepted = {} THEN NoPlan ELSE SafeJsonParse(candidates[first]),
         preview |-> IF accepted # {} THEN candidates[first]
                     ELSE IF candidates # <<>> THEN candidates[1] ELSE NoText]

\* this.runner.runOnce resolves in #attemptPlan with the result of a run
\* whose child wrote up to MaxPlanLines lines (orchestrator.js 263).
PlanRunReturns ==
    /\ planResult = NoResult
    /\ \E lines \in SeqsUpTo(PlanLineTexts, MaxPlanLines) : planResult' = RunResultOf(lines)
    /\ UNCHANGED <<message, extracted, rawPrompt, builtPrompt, promptPayload, candidateLog,
                   planParsed, drainVars, sessionVars>>

\* this.#parsePlanCandidates(mission, planResult, label) (orchestrator.js 277).
ParseCandidates ==
    /\ planResult # NoResult
    /\ planParsed = NoResult
    /\ LET out == ParsePlanCandidates(planResult)
       IN  /\ candidateLog' = out.logged
           /\ planParsed' = [plan |-> out.plan, preview |-> out.preview]
    /\ UNCHANGED <<message, extracted, rawPrompt, builtPrompt, promptPayload, planResult,
                   drainVars, sessionVars>>

CandidateNext ==
    \/ PlanRunReturns /\ UNCHANGED <<missionVars, engineVars, runnerVars, logVars, streamVars>>
    \/ ParseCandidates /\ UNCHANGED <<missionVars, engineVars, runnerVars, logVars, streamVars>>

\* #parsePlanCandidates called on the results of the planning runs of the model.
CandidateSpec == Init /\ [][CandidateNext]_vars

\* ------------------------------------- the execution loop without history

\* The base names a plan gives its agents here.
LoopNames == {"a", "b"}

\* What a run that ends an agent's work leaves behind the requester: nothing
\* (continue), a clone of the target, or a clone of the target and one of the
\* follow-up, of blueprints the mission has (orchestrator.js 575-629).
Insertions(bps) ==
    {<<>>}
    \cup {<<[baseName |-> t, triggered |-> TRUE]>> : t \in bps}
    \cup {<<[baseName |-> t, triggered |-> TRUE], [baseName |-> f, triggered |-> TRUE]>> :
            t \in bps, f \in bps}

\* createMission({goal}) with a goal: #planMission issues its first run.
LoopCreateMission ==
    /\ loopPc = "idle"
    /\ loopPc' = "plan_run"
    /\ loopStatus' = "planning"
    /\ UNCHANGED <<loopBlueprints, remaining, loopAttempt>>

\* A planning run rejects or gives no plan: the next attempt follows
\* ensureInactive, and after MAX_PLAN_ATTEMPTS runs #planMission throws and
\* createMission returns the failed mission (orchestrator.js 216-256, 201-208).
LoopPlanAttemptFails ==
    /\ loopPc = "plan_run"
    /\ loopAttempt' = loopAttempt + 1
    /\ IF loopAttempt + 1 < MAX_PLAN_ATTEMPTS
       THEN loopPc' = "plan_ensure" /\ UNCHANGED loopStatus
       ELSE loopPc' = "returned" /\ loopStatus' = "failed"
    /\ UNCHANGED <<loopBlueprints, remaining>>

\* A planning run gives a plan: the queue is the plan, the loop starts at its
\* first agent, and an empty queue ends it at once (orchestrator.js 331-381,
\* 383-398, 197-200).
LoopPlanned ==
    /\ loopPc = "plan_run"
    /\ \E plan \in SeqsUpTo(LoopNames, MaxPlanLen) :
          /\ remaining' = [k \in DOMAIN plan |-> [baseName |-> plan[k], triggered |-> FALSE]]
          /\ loopBlueprints' = {plan[k] : k \in DOMAIN plan}
          /\ IF plan = <<>>
             THEN loopPc' = "returned" /\ loopStatus' = "completed"
             ELSE loopPc' = "agent_run" /\ loopStatus' = "executing"
    /\ loopAttempt' = 0

\* this.runner.ensureInactive() has resolved before a retry (orchestrator.js
\* 218-220, 407-409).
LoopEnsureInactiveReturns ==
    /\ loopPc \in {"plan_ensure", "agent_ensure"}
    /\ loopPc' = IF loopPc = "plan_ensure" THEN "plan_run" ELSE "agent_run"
    /\ UNCHANGED <<loopStatus, loopBlueprints, remaining, loopAttempt>>

\* An agent run rejects or is not accepted: the attempt counter grows, and
\* after MAX_AGENT_ATTEMPTS attempts the mission is marked failed,
\* #executeMission returns and createMission marks it completed
\* (orchestrator.js 420-445, 449-468, 491-513, 197-200).
LoopAttemptFails ==
    /\ loopPc = "agent_run"
    /\ loopAttempt' = loopAttempt + 1
    /\ IF loopAttempt + 1 < MAX_AGENT_ATTEMPTS
       THEN loopPc' = "agent_ensure" /\ UNCHANGED loopStatus
       ELSE loopPc' = "returned" /\ loopStatus' = "completed"
    /\ UNCHANGED <<loopBlueprints, remaining>>

\* An agent run is accepted: the instances its directive asked for are
\* spliced behind the agent, the agent is completed and the for-loop goes on
\* with the next index, where mission.agents.length is read again
\* (orchestrator.js 388, 455-489, 516-519, 628-629). The queue of the model
\* holds at most MaxQueue instances from the index on.
LoopAgentCompletes ==
    /\ loopPc = "agent_run"
    /\ \E inserted \in Insertions(loopBlueprints) :
          /\ Len(inserted) + Len(remaining) - 1 <= MaxQueue
          /\ remaining' = inserted \o Tail(remaining)
    /\ loopAttempt' = 0
    /\ IF remaining' = <<>>
       THEN loopPc' = "returned" /\ loopStatus' = "completed"
       ELSE UNCHANGED <<loopPc, loopStatus>>
    /\ UNCHANGED loopBlueprints

DrainNext ==
    \/ LoopCreateMission /\ UNCHANGED <<missionVars, engineVars, runnerVars, logVars, streamVars, message, extracted, rawPrompt, builtPrompt, promptPayload, candidateVars, sessionVars>>
    \/ LoopPlanAttemptFails /\ UNCHANGED <<missionVars, engineVars, runnerVars, logVars, streamVars, message, extracted, rawPrompt, builtPrompt, promptPayload, candidateVars, sessionVars>>
    \/ LoopPlanned /\ UNCHANGED <<missionVars, engineVars, runnerVars, logVars, streamVars, message, extracted, rawPrompt, builtPrompt, promptPayload, candidateVars, sessionVars>>
    \/ LoopEnsureInactiveReturns /\ UNCHANGED <<missionVars, engineVars, runnerVars, logVars, streamVars, message, extracted, rawPrompt, builtPrompt, promptPayload, candidateVars, sessionVars>>
    \/ LoopAttemptFails /\ UNCHANGED <<missionVars, engineVars, runnerVars, logVars, streamVars, message, extracted, rawPrompt, builtPrompt, promptPayload, candidateVars, sessionVars>>
    \/ LoopAgentCompletes /\ UNCHANGED <<missionVars, engineVars, runnerVars, logVars, streamVars, message, extracted, rawPrompt, builtPrompt, promptPayload, candidateVars, sessionVars>>

\* createMission with every engine run and every ensureInactive returning:
\* whenever the flow awaits one, its next step is eventually taken.
DrainSpec == Init /\ [][DrainNext]_vars /\ WF_vars(DrainNext)

\* ------------------------------------------- codex.exec and its sessions

\* The codex.exec calls of one behaviour.
MaxExecCalls == 3

\* The sessionId arguments of the calls: absent, empty, a thread id a run may
\* report, and an id no run reports.
SessionIdArgs == {NoStr, "", "t1", "s1"}

\* What runCodexProcess returns: threadId (runResult.threadId ??
\* runResult.jsonSummary?.threadId), the effective exit code and the turn id.
ExecRunResults == [threadId : {NoStr, "t1", "t2"}, exitCode : {"0", "1", "null"}, turnId : {NoStr, "u1"}]

\* JavaScript truthiness of a session id.
Truthy(id) == id \notin {NoStr, ""}

\* randomUUID() of the call numbered n.
RandomUUID(n) == "uuid-" \o ToString(n)

\* Mutant of ShouldPersistSession: every returned run is persisted.
ShouldPersistSessionAlways(execResult) == TRUE

\* shouldPersistSession (index.js 913)
ShouldPersistSession(execResult) == execResult.exitCode = "0"

\* existingSession (index.js 848): the session id of the record the map
\* holds, or null.
ExistingSession(map, sessionId) == IF Truthy(sessionId) /\ sessionId \in DOMAIN map THEN map[sessionId].sessionId ELSE NoStr

\* effectiveSessionId (index.js 906-916) of call n.
EffectiveSessionId(execResult, call, n) ==
    LET stated == OrStr(execResult.threadId, OrStr(call.existing, call.sessionId))
    IN  IF ~Truthy(stated) /\ ShouldPersistSession(execResult) THEN RandomUUID(n) ELSE stated

\* The session map after the run of call n returned (index.js 918-941).
PersistSession(map, execResult, call, n) ==
    LET id == EffectiveSessionId(execResult, call, n)
        found == Truthy(id) /\ id \in DOMAIN map
        record == [sessionId |-> id, createdAt |-> IF found THEN map[id].createdAt ELSE execClock, updatedAt |-> execClock, turnId |-> execResult.turnId]
    IN  IF ShouldPersistSession(execResult) /\ Truthy(id)
        THEN [k \in DOMAIN map \cup {id} |-> IF k = id THEN record ELSE map[k]]
        ELSE map

\* A codex.exec call: the session is looked up; an unknown one throws, else
\* the arguments are built and runCodexProcess starts the process
\* (index.js 848-851, 895-903).
CodexExecCalled ==
    /\ execClock < MaxExecCalls
    /\ execClock' = execClock + 1
    /\ \E sessionId \in SessionIdArgs :
          LET existing == ExistingSession(sessions, sessionId)
          IN  IF Truthy(sessionId) /\ existing = NoStr
              THEN /\ execThrown' = "Unknown Codex session: " \o sessionId
                   /\ UNCHANGED <<execCalls, execSpawns>>
              ELSE /\ execCalls' = (execClock' :> [sessionId |-> sessionId, existing |-> existing]) @@ execCalls
                   /\ execSpawns' = execSpawns \cup {execClock'}
                   /\ UNCHANGED execThrown
    /\ UNCHANGED <<sessions, execReturns>>

\* runCodexProcess resolves for a call: the session is persisted when the
\* run's effective exit code is 0 (index.js 905-941).
CodexExecRunReturns ==
    \E n \in DOMAIN execCalls, execResult \in ExecRunResults :
        /\ sessions' = PersistSession(sessions, execResult, execCalls[n], n)
        /\ execReturns' = Append(execReturns, [call |-> n, exitCode |-> execResult.exitCode, sessionId |-> EffectiveSessionId(execResult, execCalls[n], n)])
        /\ execCalls' = [k \in DOMAIN execCalls \ {n} |-> execCalls[k]]
        /\ UNCHANGED <<execClock, execSpawns, execThrown>>

\* runCodexProcess rejects for a call (spawn error or timeout): the handler
\* throws behind its await (index.js 895-903).
CodexExecRunRejects ==
    \E n \in DOMAIN execCalls :
        /\ execThrown' = "Codex run failed"
        /\ execCalls' = [k \in DOMAIN execCalls \ {n} |-> execCalls[k]]
        /\ UNCHANGED <<sessions, execClock, execSpawns, execReturns>>

SessionNext ==
    \/ CodexExecCalled /\ UNCHANGED <<missionVars, engineVars, runnerVars, logVars, streamVars, message, extracted, rawPrompt, builtPrompt, promptPayload, candidateVars, drainVars>>
    \/ CodexExecRunReturns /\ UNCHANGED <<missionVars, engineVars, runnerVars, logVars, streamVars, message, extracted, rawPrompt, builtPrompt, promptPayload, candidateVars, drainVars>>
    \/ CodexExecRunRejects /\ UNCHANGED <<missionVars, engineVars, runnerVars, logVars, streamVars, message, extracted, rawPrompt, builtPrompt, promptPayload, candidateVars, drainVars>>

SessionSpec == Init /\ [][SessionNext]_vars

\* ------------------------------- several missions on the one shared runner

\* The attempt budget of a stage: planning first, agents after.
Budget(stage) == IF stage = 1 THEN MAX_PLAN_ATTEMPTS ELSE MAX_AGENT_ATTEMPTS

\* Mutant of the spawn in runOnce: the child of the run before is still
\* counted alive when the next is spawned.
SpawnedAmong(children, exited, child, spawns) ==
    IF spawns THEN children \cup {child} ELSE children

\* The children alive after crossSpawn: the child that exited is gone, and
\* the new child lives unless the spawn failed (the child object then emits
\* 'error' and never 'exit').
Spawned(children, exited, child, spawns) ==
    IF spawns THEN (children \ {exited}) \cup {child} ELSE children \ {exited}

\* this.runner.runOnce(...) called by mission m's flow f: a child is spawned
\* and becomes runner.activeChild; no test of a child already active
\* (codexRunner.js 108-113).
SpawnFor(m, f) ==
    LET child == <<m, f.runs + 1>>
    IN  /\ flows' = [flows EXCEPT ![m] = [f EXCEPT !.pc = "run", !.runs = f.runs + 1,
                                                   !.child = child]]
        /\ \E spawns \in BOOLEAN :
              liveChildren' = Spawned(liveChildren, NoChildId, child, spawns)
        /\ runnerActiveChild' = child

\* Mutant of ChildGone: runOnce returns without clearing activeChild.
ChildGoneKeepsActive(child) ==
    /\ liveChildren' = liveChildren \ {child}
    /\ runnerActiveChild' = runnerActiveChild

\* runOnce after its child exited: activeChild is cleared if it is still this
\* child (codexRunner.js 230-233).
ChildGone(child) ==
    /\ liveChildren' = liveChildren \ {child}
    /\ runnerActiveChild' = IF runnerActiveChild = child THEN NoChildId ELSE runnerActiveChild

\* createMission(m): the mission is created and #planMission issues the first
\* planning run, without ensureInactive (orchestrator.js 172-227, 263).
MissionCreated(m) ==
    /\ flows[m].pc = "idle"
    /\ SpawnFor(m, [flows[m] EXCEPT !.stage = 1])
    /\ UNCHANGED ensureKills

\* The run mission m awaits returns and the attempt succeeds with stages left:
\* the next stage issues its first run at once (orchestrator.js 238-242,
\* 388-419, 484-489).
RunSucceedsNextStage(m) ==
    /\ flows[m].pc = "run"
    /\ flows[m].child \in liveChildren
    /\ flows[m].stage < MaxStages
    /\ LET child == flows[m].child
           f == [flows[m] EXCEPT !.stage = flows[m].stage + 1, !.attemptIndex = 0]
           nextChild == <<m, f.runs + 1>>
       IN  /\ flows' = [flows EXCEPT ![m] = [f EXCEPT !.runs = f.runs + 1,
                                                      !.child = nextChild]]
           /\ \E spawns \in BOOLEAN :
                 liveChildren' = Spawned(liveChildren, child, nextChild, spawns)
           /\ runnerActiveChild' = nextChild
    /\ UNCHANGED ensureKills

\* The run mission m awaits returns, the attempt succeeds and the mission has
\* no stage left: createMission returns (orchestrator.js 197-208).
RunSucceedsLastStage(m) ==
    /\ flows[m].pc = "run"
    /\ flows[m].child \in liveChildren
    /\ flows[m].stage = MaxStages
    /\ ChildGone(flows[m].child)
    /\ flows' = [flows EXCEPT ![m].pc = "done", ![m].child = NoChildId]
    /\ UNCHANGED ensureKills

\* The run mission m awaits returns and the attempt fails: the flow awaits
\* ensureInactive before the next attempt, or the budget is exhausted and
\* createMission returns (orchestrator.js 216-220, 406-409, 491-514).
RunFails(m) ==
    /\ flows[m].pc = "run"
    /\ flows[m].child \in liveChildren
    /\ ChildGone(flows[m].child)
    /\ flows' = [flows EXCEPT
                    ![m].attemptIndex = flows[m].attemptIndex + 1,
                    ![m].child = NoChildId,
                    ![m].pc = IF flows[m].attemptIndex + 1 < Budget(flows[m].stage)
                              THEN "ensure" ELSE "done"]
    /\ UNCHANGED ensureKills

\* The run mission m awaits rejects: the spawn failed, the child object
\* emitted 'error' and once(child, 'exit') threw; activeChild keeps the child
\* object, and the attempt fails (codexRunner.js 108-113, 230;
\* orchestrator.js 228-236, 420-428).
RunRejects(m) ==
    /\ flows[m].pc = "run"
    /\ flows[m].child \notin liveChildren
    /\ flows' = [flows EXCEPT
                    ![m].attemptIndex = flows[m].attemptIndex + 1,
                    ![m].child = NoChildId,
                    ![m].pc = IF flows[m].attemptIndex + 1 < Budget(flows[m].stage)
                              THEN "ensure" ELSE "done"]
    /\ UNCHANGED <<liveChildren, runnerActiveChild, ensureKills>>

\* ensureInactive called by mission m while activeChild is a child object
\* with no process behind it: activeChild is cleared, ensureInactive returns
\* and the next run is issued (codexRunner.js 36-41).
EnsureInactiveDeadChild(m) ==
    /\ flows[m].pc = "ensure"
    /\ runnerActiveChild # NoChildId
    /\ runnerActiveChild \notin liveChildren
    /\ SpawnFor(m, flows[m])
    /\ UNCHANGED ensureKills

\* ensureInactive called by mission m with no child active: it returns and the
\* next run is issued (codexRunner.js 31-35; orchestrator.js 219-227, 408-419).
EnsureInactiveNoChild(m) ==
    /\ flows[m].pc = "ensure"
    /\ runnerActiveChild = NoChildId
    /\ SpawnFor(m, flows[m])
    /\ UNCHANGED ensureKills

\* ensureInactive called by mission m while a child is active (another
\* mission's): SIGTERM, SIGKILL after 200 ms, and the exit is awaited
\* (codexRunner.js 36-68).
EnsureInactiveKills(m) ==
    /\ flows[m].pc = "ensure"
    /\ runnerActiveChild # NoChildId
    /\ runnerActiveChild \in liveChildren
    /\ flows' = [flows EXCEPT ![m].pc = "ensure_wait", ![m].child = runnerActiveChild]
    /\ ensureKills' = ensureKills \cup {<<m, runnerActiveChild>>}
    /\ UNCHANGED <<liveChildren, runnerActiveChild>>

\* The child ensureInactive killed has exited (it dies of SIGKILL before the
\* 1000 ms cleanup timer): cleanup clears activeChild if it is still that
\* child, and mission m issues its next run (codexRunner.js 44-52).
EnsureInactiveResolves(m) ==
    /\ flows[m].pc = "ensure_wait"
    /\ flows[m].child \notin liveChildren
    /\ SpawnFor(m, flows[m])
    /\ UNCHANGED ensureKills

RunnerNext ==
    \/ \E m \in Missions : MissionCreated(m) /\ UNCHANGED <<missionVars, engineVars, logVars, pureVars, streamVars>>
    \/ \E m \in Missions : RunSucceedsNextStage(m) /\ UNCHANGED <<missionVars, engineVars, logVars, pureVars, streamVars>>
    \/ \E m \in Missions : RunSucceedsLastStage(m) /\ UNCHANGED <<missionVars, engineVars, logVars, pureVars, streamVars>>
    \/ \E m \in Missions : RunFails(m) /\ UNCHANGED <<missionVars, engineVars, logVars, pureVars, streamVars>>
    \/ \E m \in Missions : RunRejects(m) /\ UNCHANGED <<missionVars, engineVars, logVars, pureVars, streamVars>>
    \/ \E m \in Missions : EnsureInactiveDeadChild(m) /\ UNCHANGED <<missionVars, engineVars, logVars, pureVars, streamVars>>
    \/ \E m \in Missions : EnsureInactiveNoChild(m) /\ UNCHANGED <<missionVars, engineVars, logVars, pureVars, streamVars>>
    \/ \E m \in Missions : EnsureInactiveKills(m) /\ UNCHANGED <<missionVars, engineVars, logVars, pureVars, streamVars>>
    \/ \E m \in Missions : EnsureInactiveResolves(m) /\ UNCHANGED <<missionVars, engineVars, logVars, pureVars, streamVars>>

RunnerSpec == Init /\ [][RunnerNext]_vars

\* createMission is called for mission m when the missions before it have
\* returned.
InTurn(m) == \A k \in Missions : k < m => flows[k].pc = "done"

\* The missions created one after the other, each on the runner the one
\* before left. ensureInactive then never finds a child alive, so its kill is
\* no step of these missions.
SequentialNext ==
    \/ \E m \in Missions : InTurn(m) /\ MissionCreated(m) /\ UNCHANGED <<missionVars, engineVars, logVars, pureVars, streamVars>>
    \/ \E m \in Missions : RunSucceedsNextStage(m) /\ UNCHANGED <<missionVars, engineVars, logVars, pureVars, streamVars>>
    \/ \E m \in Missions : RunSucceedsLastStage(m) /\ UNCHANGED <<missionVars, engineVars, logVars, pureVars, streamVars>>
    \/ \E m \in Missions : RunFails(m) /\ UNCHANGED <<missionVars, engineVars, logVars, pureVars, streamVars>>
    \/ \E m \in Missions : RunRejects(m) /\ UNCHANGED <<missionVars, engineVars, logVars, pureVars, streamVars>>
    \/ \E m \in Missions : EnsureInactiveDeadChild(m) /\ UNCHANGED <<missionVars, engineVars, logVars, pureVars, streamVars>>
    \/ \E m \in Missions : EnsureInactiveNoChild(m) /\ UNCHANGED <<missionVars, engineVars, logVars, pureVars, streamVars>>

SequentialSpec == Init /\ [][SequentialNext]_vars

\* ----------------------------------------------------------------- claims

AgentIndices == DOMAIN agents

HasFailedAgent == \E i \in AgentIndices : agents[i].status = "failed"

\* The mission status changes createMission's flow is specified to make.
AllowedStatusChanges ==
    {<<"none", "planning">>, <<"planning", "executing">>, <<"planning", "failed">>,
     <<"executing", "completed">>, <<"executing", "failed">>}

\* C1: the mission status changes only along planning -> executing ->
\* {completed, failed}, or planning -> failed when planning fails; it never
\* reverts, never skips executing, and never changes once it is completed or
\* failed.
C1_StatusOnlyMovesForward ==
    [][status' # status => <<status, status'>> \in AllowedStatusChanges]_vars

\* C1 (what the code does): a mission that #executeMission has marked failed is
\* marked completed when createMission resumes.
C1_FailedBecomesCompleted ==
    /\ pc = "returned"
    /\ status = "completed"
    /\ HasFailedAgent

\* C2: when an agent has exhausted its attempt budget, the mission record
\* createMission returns has that agent failed, the mission failed, and an
\* error naming the agent and the last failure reason.
C2_ExhaustionReturnsFailedMission ==
    (pc = "returned" /\ HasFailedAgent) =>
        /\ status = "failed"
        /\ error # NoError
        /\ error.kind = "agent_exhausted"
        /\ \E i \in AgentIndices :
              /\ agents[i].status = "failed"
              /\ error.agent = agents[i].name
        /\ error.reason = failureReason

\* C3: a mission is completed only if the cursor has passed the end of the
\* queue and every agent in the queue is completed.
C3_CompletedOnlyWhenAllCompleted ==
    status = "completed" =>
        /\ idx > Len(agents)
        /\ \A i \in AgentIndices : agents[i].status = "completed"

\* The engine runs issued so far are those announced by agent:started events
\* and by the retries counted in engineRuns: a step issues a run for an agent
\* when it emits agent:started or raises engineRuns.
IssuesAgentRun ==
    \/ engineRuns' # engineRuns
    \/ /\ Len(events') > Len(events)
       /\ events'[Len(events')].type = "agent:started"

\* C4: once an agent of the mission is marked failed, no agent is started and
\* no engine run is issued afterwards, and every agent queued after the
\* failed one keeps status pending.
C4_NothingRunsAfterFailure ==
    [][/\ HasFailedAgent =>
            /\ ~IssuesAgentRun
            /\ agents' = agents
            /\ prompt' = prompt
            /\ activeChild' = activeChild
       /\ \A i \in DOMAIN agents' :
            agents'[i].status = "failed" =>
                \A j \in DOMAIN agents' : j > i => agents'[j].status = "pending"]_vars

\* C4 (witness): the mission has returned with a failed agent and a pending
\* agent queued behind it.
C4_FailedWithPendingBehind ==
    /\ pc = "returned"
    /\ \E i, j \in AgentIndices :
          /\ i < j
          /\ agents[i].status = "failed"
          /\ agents[j].status = "pending"

\* C5: at most one agent of the queue is running; the others are pending,
\* completed or failed.
C5_AtMostOneRunning ==
    /\ Cardinality({i \in AgentIndices : agents[i].status = "running"}) <= 1
    /\ \A i \in AgentIndices :
          agents[i].status \in {"pending", "running", "completed", "failed"}

\* C5 (witness): an agent inserted by a request_iteration is running, behind a
\* completed agent and ahead of a pending one.
C5_InsertedAgentRunning ==
    \E i, j, k \in AgentIndices :
        /\ i < j /\ j < k
        /\ agents[i].status = "completed"
        /\ agents[j].status = "running"
        /\ agents[j].triggeredBy # NoName
        /\ agents[k].status = "pending"

\* C6: the agent instances that share a base name have pairwise distinct
\* iteration counters, starting at 0 and strictly increasing in creation
\* order, so no two agents of the queue have the same id.
C6_IterationCountersUnique ==
    \A i, j \in AgentIndices :
        /\ (i # j => agents[i].id # agents[j].id)
        /\ (agents[i].baseName = agents[j].baseName /\ agents[i].created < agents[j].created)
              => agents[i].iteration < agents[j].iteration
        /\ \E k \in AgentIndices :
              agents[k].baseName = agents[i].baseName /\ agents[k].iteration = 0

\* C6 (what the code does): a plan of distinctly named agents, and yet two
\* instances of the queue share an id, both cloned by one request_iteration
\* whose next_agent names the target by an id (`a__iter0`).
C6_ClonesShareId ==
    /\ \A i, j \in AgentIndices :
          (i # j /\ agents[i].iteration = 0 /\ agents[j].iteration = 0)
              => agents[i].id # agents[j].id
    /\ \E i \in AgentIndices :
          /\ i + 1 \in AgentIndices
          /\ agents[i].id = agents[i + 1].id
          /\ agents[i].created + 1 = agents[i + 1].created

\* The action a parsed directive asks for, as #handleControlDirective reads it.
ActionOf(directive) == ToLower(OrStr(directive.action, OrStr(directive.status, "")))

Resolvable(name) == GetAgentBlueprint(agentBlueprints, name) # NoBlueprint

BaseOf(name) == GetAgentBlueprint(agentBlueprints, name).name

InstancesOf(ags, baseName) == Cardinality({k \in DOMAIN ags : ags[k].baseName = baseName})

\* The run an agent was awaiting settles in this step with exit code 0 and a
\* request_iteration directive that names a resolvable target and a
\* resolvable next agent.
SettlesWithNamedIteration ==
    /\ pc = "agent_run"
    /\ settled'.kind = "resolved"
    /\ settled'.exitCode = "0"
    /\ settled'.directive # NoDirective
    /\ ActionOf(settled'.directive) = "request_iteration"
    /\ settled'.directive.target_agent # NoName
    /\ settled'.directive.next_agent # NoName
    /\ Resolvable(settled'.directive.target_agent)
    /\ Resolvable(settled'.directive.next_agent)

\* Exactly two instances are inserted behind the cursor: the clone of the
\* target, then the clone of the next agent, both pending; the agents queued
\* before keep their order.
InsertsTargetThenNext ==
    LET T == BaseOf(settled'.directive.target_agent)
        N == BaseOf(settled'.directive.next_agent)
    IN  /\ Len(agents') = Len(agents) + 2
        /\ agents'[idx + 1].baseName = T
        /\ agents'[idx + 1].status = "pending"
        /\ agents'[idx + 1].iteration = InstancesOf(agents, T)
        /\ agents'[idx + 2].baseName = N
        /\ agents'[idx + 2].status = "pending"
        /\ \A k \in DOMAIN agents :
              /\ k < idx => agents'[k] = agents[k]
              /\ k = idx => agents'[k].created = agents[k].created
              /\ k > idx => agents'[k + 2] = agents[k]

\* C7 (as claimed): a successful run ending with a request_iteration that
\* names a resolvable target T and a resolvable next agent N different from T
\* inserts the clone of T at i+1 and the clone of N at i+2.
C7_NamedIterationInsertsTwo ==
    [][(/\ SettlesWithNamedIteration
        /\ settled'.directive.next_agent # settled'.directive.target_agent)
            => InsertsTargetThenNext]_vars

\* C7 (amended): the same, when N differs from the base name T resolves to.
C7_IterationInsertsTwoWhenNextIsNotTargetBase ==
    [][(/\ SettlesWithNamedIteration
        /\ settled'.directive.next_agent # BaseOf(settled'.directive.target_agent))
            => InsertsTargetThenNext]_vars

\* C7 (witness): agent:finished is being emitted for a requester whose
\* request_iteration named two different blueprints; their clones are queued
\* behind it, pending, with another agent behind them.
C7_TwoClonesQueued ==
    /\ pc = "agent_finished"
    /\ settled.kind = "resolved"
    /\ settled.directive # NoDirective
    /\ ActionOf(settled.directive) = "request_iteration"
    /\ settled.directive.target_agent # NoName
    /\ settled.directive.next_agent # NoName
    /\ Len(agents) >= idx + 3
    /\ agents[idx + 1].baseName = BaseOf(settled.directive.target_agent)
    /\ agents[idx + 2].baseName = BaseOf(settled.directive.next_agent)
    /\ agents[idx + 1].baseName # agents[idx + 2].baseName
    /\ agents[idx + 1].iteration = 1
    /\ agents[idx + 1].status = "pending"
    /\ agents[idx + 2].status = "pending"
    /\ agents[idx + 3].triggeredBy = NoName

\* The run an agent was awaiting settles in this step with exit code 0, a
\* continue directive and no execution errors.
SettlesWithCleanContinue ==
    /\ pc = "agent_run"
    /\ settled'.kind = "resolved"
    /\ settled'.exitCode = "0"
    /\ settled'.directive # NoDirective
    /\ ActionOf(settled'.directive) = "continue"
    /\ ~settled'.hadExecutionErrors

\* The queue holds the same instances in the same order in this step.
QueueKept ==
    /\ Len(agents') = Len(agents)
    /\ \A k \in DOMAIN agents :
          /\ agents'[k].id = agents[k].id
          /\ agents'[k].created = agents[k].created

\* C8: a run with exit code 0, a continue directive and no execution errors
\* marks the agent completed and leaves the queue as it is (nothing inserted,
\* removed or reordered); the cursor then advances to the next index.
C8_CleanContinueAdvances ==
    [][/\ SettlesWithCleanContinue =>
            /\ QueueKept
            /\ agents'[idx].status = "completed"
            /\ \A k \in DOMAIN agents : k # idx => agents'[k] = agents[k]
            /\ pc' = "agent_finished"
       /\ (/\ pc = "agent_finished"
           /\ ActionOf(settled.directive) = "continue") =>
            /\ QueueKept
            /\ idx' = idx + 1]_vars

\* C8 (witness): the second agent of a two-agent queue is running after the
\* first one completed with a clean continue.
C8_SecondAgentRunsAfterContinue ==
    /\ pc = "agent_run"
    /\ idx = 2
    /\ Len(agents) = 2
    /\ agents[1].status = "completed"
    /\ agents[2].status = "running"
    /\ settled.kind = "resolved"
    /\ settled.directive # NoDirective
    /\ ActionOf(settled.directive) = "continue"
    /\ ~settled.hadExecutionErrors

\* The creation numbers of the completed agents of a queue.
CompletedIn(ags) == {ags[k].created : k \in {i \in DOMAIN ags : ags[i].status = "completed"}}

\* The awaited agent run settles in this step as a run that may complete the
\* agent: resolved, exit code 0, a parsed directive that is continue without
\* execution errors or a request_iteration that is fulfilled (agents inserted).
SettlesAcceptably ==
    /\ pc = "agent_run"
    /\ settled'.kind = "resolved"
    /\ settled'.exitCode = "0"
    /\ settled'.directive # NoDirective
    /\ \/ ActionOf(settled'.directive) = "continue" /\ ~settled'.hadExecutionErrors
       \/ ActionOf(settled'.directive) = "request_iteration" /\ Len(agents') > Len(agents)

\* The awaited agent run settles in this step as one of the failures of the
\* claim: rejected, exit code not 0, no directive, a directive with a missing
\* or unsupported action, or continue with execution errors.
SettlesAsFailure ==
    /\ pc = "agent_run"
    /\ \/ settled'.kind = "rejected"
       \/ /\ settled'.kind = "resolved"
          /\ \/ settled'.exitCode # "0"
             \/ settled'.directive = NoDirective
             \/ /\ settled'.directive # NoDirective
                /\ \/ ActionOf(settled'.directive) \notin {"continue", "request_iteration"}
                   \/ /\ ActionOf(settled'.directive) = "continue"
                      /\ settled'.hadExecutionErrors

\* C9: an agent becomes completed only in the step in which its own run
\* settles acceptably; a failure never completes it and counts as a failed
\* attempt, whose reason the prompt of the next attempt carries.
C9_CompletedOnlyByAcceptedRun ==
    [][/\ CompletedIn(agents') # CompletedIn(agents) =>
            /\ SettlesAcceptably
            /\ CompletedIn(agents') = CompletedIn(agents) \cup {agents[idx].created}
       /\ SettlesAsFailure =>
            /\ CompletedIn(agents') = CompletedIn(agents)
            /\ agents'[idx].status \in {"running", "failed"}
            /\ attemptIndex' = attemptIndex + 1
            /\ failureReason' # NoStr
       /\ pc = "agent_ensure" =>
            /\ failureReason # NoStr
            /\ prompt' = [agent |-> agents[idx].id,
                          retryBlock |-> <<ToString(attemptIndex + 1), failureReason>>]]_vars

\* C9 (witness): an agent is completed by its second run, after a first run
\* that reported continue with execution errors; the second prompt carried
\* that reason.
C9_CompletedOnRetryAfterErrors ==
    /\ pc = "agent_finished"
    /\ attemptIndex = 1
    /\ failureReason = "Execution errors detected; cannot continue"
    /\ prompt.retryBlock = <<"2", failureReason>>
    /\ agents[idx].status = "completed"

\* The awaited agent run settles in this step without completing the agent.
AttemptFails ==
    /\ pc = "agent_run"
    /\ agents'[idx].status # "completed"

\* C10: at most MAX_AGENT_ATTEMPTS engine runs are issued for an agent; every
\* failed attempt, a rejected run included, raises the attempt counter by
\* exactly one; the agent is marked failed exactly when the counter reaches
\* the budget without a successful attempt.
C10_AttemptBudget ==
    [][/\ engineRuns' <= MAX_AGENT_ATTEMPTS
       /\ pc' = "agent_run" => engineRuns' = attemptIndex' + 1
       /\ AttemptFails => attemptIndex' = attemptIndex + 1
       /\ (pc = "agent_run" /\ settled'.kind = "rejected") => AttemptFails
       /\ (HasFailedAgent' /\ ~HasFailedAgent)
            <=> (AttemptFails /\ attemptIndex' = MAX_AGENT_ATTEMPTS)
       /\ (HasFailedAgent' /\ ~HasFailedAgent) => agents'[idx].status = "failed"]_vars

\* C10 (witness): an agent is failed after three runs that all rejected.
C10_FailedAfterThreeRejections ==
    /\ pc = "exec_returned"
    /\ idx \in AgentIndices
    /\ agents[idx].status = "failed"
    /\ engineRuns = MAX_AGENT_ATTEMPTS
    /\ attemptIndex = MAX_AGENT_ATTEMPTS
    /\ settled.kind = "rejected"
    /\ lastResult = NoResult

\* The name the requester's request_iteration makes the target: target_agent,
\* or the requester's own base name when the directive names none.
TargetNameOf(directive, requestingAgent) ==
    OrName(directive.target_agent, OrName(requestingAgent.baseName, requestingAgent.name))

\* The run an agent was awaiting settles in this step with exit code 0 and a
\* request_iteration whose target resolves to no blueprint.
SettlesWithUnresolvableTarget ==
    /\ pc = "agent_run"
    /\ settled'.kind = "resolved"
    /\ settled'.exitCode = "0"
    /\ settled'.directive # NoDirective
    /\ ActionOf(settled'.directive) = "request_iteration"
    /\ LET T == TargetNameOf(settled'.directive, agents[idx])
       IN  T \notin agentBlueprints /\ StripIter(T) \notin agentBlueprints

\* C11: a request_iteration whose target resolves to no blueprint (neither the
\* name nor the name without its __iter<n> suffix is a key of the map) is a
\* retryable failure: the agent is not completed, the attempt counter is
\* incremented, no instance is inserted and no iteration:queued entry logged.
C11_UnresolvableTargetIsRetryableFailure ==
    [][SettlesWithUnresolvableTarget =>
          /\ agents'[idx].status # "completed"
          /\ attemptIndex' = attemptIndex + 1
          /\ failureReason' = "Iteration request could not be fulfilled"
          /\ QueueKept
          /\ \A k \in DOMAIN agents : k # idx => agents'[k] = agents[k]
          /\ \A k \in DOMAIN logs' : logs'[k].type = "iteration:queued" => k \in DOMAIN logs
          /\ results' = results]_vars

\* C11 (witness): an agent awaits its retry after a request_iteration naming
\* the unknown agent zz; nothing was queued or logged.
C11_RetryAfterUnknownTarget ==
    /\ pc = "agent_ensure"
    /\ settled.kind = "resolved"
    /\ settled.directive # NoDirective
    /\ settled.directive.target_agent = <<"zz">>
    /\ failureReason = "Iteration request could not be fulfilled"
    /\ attemptIndex = 1
    /\ agents[idx].status = "running"
    /\ Len(agents) = 1
    /\ logs = <<>>

\* The diagnostic #planMission derives from a planning run that gave no plan.
DiagnosticOf(outcome) ==
    IF outcome.kind = "rejected" THEN "Codex planner error"
    ELSE IF outcome.exitCode \notin {"0", "null"} THEN "Codex exited with code"
    ELSE IF outcome.preview THEN "Planner response was not valid JSON"
    ELSE "Planner response lacked valid JSON"

EventTypes(evs) == {evs[k].type : k \in DOMAIN evs}

\* C18: planning issues at most MAX_PLAN_ATTEMPTS engine runs; when the last
\* of them also yields no usable plan (a rejected run included) the mission
\* goes from planning to failed, never executing, no agent started, and
\* mission.error carries the diagnostic of the last attempt.
C18_PlanningBudget ==
    [][/\ planRuns' <= MAX_PLAN_ATTEMPTS
       /\ (pc = "plan_run" /\ pc' # "plan_returned" /\ planRuns = MAX_PLAN_ATTEMPTS)
            => pc' = "plan_threw"
       /\ (pc = "plan_run" /\ pc' # "plan_returned" /\ planRuns < MAX_PLAN_ATTEMPTS)
            => pc' = "plan_ensure"
       /\ pc = "plan_threw" =>
            /\ planRuns = MAX_PLAN_ATTEMPTS
            /\ status = "planning"
            /\ status' = "failed"
            /\ agents' = <<>>
            /\ EventTypes(events') \cap {"mission:executing", "agent:started"} = {}
            /\ error' # NoError
            /\ error'.kind = "plan"
            /\ error'.reason = DiagnosticOf(settled)
       /\ (status = "planning" /\ status' = "failed") => pc = "plan_threw"]_vars

\* C18 (witness): the mission has returned failed after four planning runs, the
\* last of which rejected.
C18_FailedAfterFourPlanningRuns ==
    /\ pc = "returned"
    /\ status = "failed"
    /\ planRuns = MAX_PLAN_ATTEMPTS
    /\ settled.kind = "rejected"
    /\ error # NoError
    /\ error.reason = "Codex planner error"
    /\ agents = <<>>

\* C19: whenever planning succeeds the plan holds a non-empty list of agents:
\* the initial queue and the blueprint map are non-empty.
C19_AcceptedPlanIsNonEmpty ==
    pc = "plan_returned" => (Len(agents) > 0 /\ agentBlueprints # {})

\* C19 (what the code does): a mission planned with an empty agents list has
\* run to completed without any agent.
C19_EmptyPlanCompletes ==
    /\ pc = "returned"
    /\ status = "completed"
    /\ agents = <<>>
    /\ agentBlueprints = {}

\* The planning run awaited settles in this step with a plan that is accepted.
SettlesWithPlan ==
    /\ pc = "plan_run"
    /\ pc' = "plan_returned"

\* The name a planned agent entry goes by: its name, or agent_<n> (1-based).
PlannedName(plan, n) ==
    IF plan.agents[n].name # NoName THEN plan.agents[n].name ELSE <<"agent_", ToString(n)>>

\* Every planned agent is registered as a blueprint, and the queue is one
\* pending iteration-0 instance per planned entry, in the planner's order.
QueueIsThePlan ==
    LET plan == settled'.plan
    IN  /\ agentBlueprints' = {PlannedName(plan, n) : n \in DOMAIN plan.agents}
        /\ Len(agents') = Len(plan.agents)
        /\ \A n \in DOMAIN plan.agents :
              /\ agents'[n].baseName = PlannedName(plan, n)
              /\ agents'[n].name = PlannedName(plan, n)
              /\ agents'[n].id = PlannedName(plan, n) \o <<"__iter", "0">>
              /\ agents'[n].iteration = 0
              /\ agents'[n].status = "pending"
              /\ agents'[n].baseName \in agentBlueprints'

\* C20 (as claimed): on plan success the mission summary equals the plan's
\* mission_summary, every planned agent is a blueprint and the queue is the
\* plan's agents as pending iteration-0 instances, in order.
C20_PlanApplied ==
    [][SettlesWithPlan =>
          /\ summary' = settled'.plan.mission_summary
          /\ QueueIsThePlan]_vars

\* C20 (amended): the same, the summary being the plan's mission_summary or,
\* when the plan has none, its `summary` (none when it has neither).
C20_PlanAppliedWithSummaryAlias ==
    [][SettlesWithPlan =>
          /\ summary' = IF settled'.plan.mission_summary # NoStr
                        THEN settled'.plan.mission_summary
                        ELSE settled'.plan.summary
          /\ QueueIsThePlan]_vars

\* C20 (witness): the plan {mission_summary: S, agents: [{name: a}]} has been
\* applied: summary S, one blueprint a, one agent a__iter0.
C20_RoundTripPlanApplied ==
    /\ pc = "plan_returned"
    /\ settled.plan.mission_summary = "S"
    /\ summary = "S"
    /\ agentBlueprints = {<<"a">>}
    /\ Len(agents) = 1
    /\ agents[1].id = <<"a", "__iter", "0">>
    /\ agents[1].iteration = 0
    /\ agents[1].status = "pending"

\* The run has returned, its stream held a completion event, the completion
\* path then sent the child a signal, and the process reported a signal and
\* no exit code.
TerminatedAfterCompletionEvent ==
    /\ runPc = "returned"
    /\ completion # "null"
    /\ \E sig \in {"SIGTERM", "SIGKILL"} : <<"completion", sig>> \in kills
    /\ childSignalCode # "null"
    /\ childExitCode = "null"

\* C12 (as claimed): a run whose stream holds a completion event and whose
\* child the engine then terminates, the process reporting a signal and no
\* exit code, has effective exit code 0.
C12_CompletionTerminationIsSuccess ==
    TerminatedAfterCompletionEvent => runResult.exitCode = "0"

\* C12 (amended): the same, for a run whose timeout has not expired.
C12_CompletionTerminationIsSuccessUnlessTimedOut ==
    (TerminatedAfterCompletionEvent /\ timer # "fired") => runResult.exitCode = "0"

\* C12 (witness): a run has returned exit code 0 for a child that died of the
\* SIGTERM the completion path sent after turn.completed.
C12_NormalizedAfterTurnCompleted ==
    /\ runPc = "returned"
    /\ completion = "turn.completed"
    /\ kills = {<<"completion", "SIGTERM">>}
    /\ childSignalCode = "SIGTERM"
    /\ childExitCode = "null"
    /\ runResult.exitCode = "0"

\* C13: a run in which the timeout expired and terminated the child does not
\* have its exit code normalized to 0, even if a completion event was seen.
C13_NoNormalizationAfterTimeout ==
    (/\ runPc = "returned"
     /\ <<"timeout", "SIGTERM">> \in kills
     /\ childExitCode = "null") => runResult.exitCode # "0"

\* C13 (what the code does): runOnce returns exit code 0 for a child that only
\* the timeout path signalled, a completion event having been seen before.
C13_TimedOutRunReportedAsSuccess ==
    /\ engineFn = "runOnce"
    /\ runPc = "returned"
    /\ timer = "fired"
    /\ \A k \in kills : k[1] = "timeout"
    /\ childSignalCode # "null"
    /\ runResult.exitCode = "0"

\* C14: after the first completion event the engine requests termination when
\* the grace delay ends and, when the grace window then ends with the child
\* still running, force-kills it.
C14_CompletionPathForceKills ==
    [][/\ (/\ completionTimer = "armed"
           /\ completionTimer' = "fired"
           /\ runPc = "awaiting_exit") => "SIGTERM" \in delivered'
       /\ (/\ completionKill = "armed"
           /\ completionKill' = "fired"
           /\ runPc = "awaiting_exit") => "SIGKILL" \in delivered']_vars

\* C14 (what the code does): in runOnce a child that ignores SIGTERM is still
\* running after both timers of the completion path fired, was never sent
\* SIGKILL, and no run timeout is set: the run never returns by itself.
C14_IgnoringChildOutlivesCompletion ==
    /\ engineFn = "runOnce"
    /\ runPc = "awaiting_exit"
    /\ childOnTerm = "ignores"
    /\ completionTimer = "fired"
    /\ completionKill = "fired"
    /\ delivered = {"SIGTERM"}
    /\ timer = "null"

\* C15: when the timeout expires with the child still running the engine
\* requests termination, force-kills the child if it is still running when the
\* grace window ends, and the Run Result returned is marked as timed out.
C15_TimeoutTerminatesAndMarks ==
    [][/\ (timer = "armed" /\ timer' = "fired" /\ runPc = "awaiting_exit")
            => ("SIGTERM" \in delivered' /\ timeoutKill' = "armed")
       /\ (timeoutKill = "armed" /\ timeoutKill' = "fired" /\ runPc = "awaiting_exit")
            => "SIGKILL" \in delivered'
       /\ (runPc = "awaiting_exit" /\ runPc' = "returned" /\ timer = "fired")
            => ("timedOut" \in DOMAIN runResult' /\ runResult'.timedOut)]_vars

\* C15 (what the code does): runOnce has returned from a run its timeout
\* ended, and the Run Result carries no timed-out mark.
C15_TimedOutRunUnmarked ==
    /\ engineFn = "runOnce"
    /\ runPc = "returned"
    /\ timer = "fired"
    /\ childSignalCode # "null"
    /\ "timedOut" \notin DOMAIN runResult

\* C16: once the cancellation signal was triggered with the child running (at
\* the start of the run included), the child is terminated, the run returns,
\* and the Run Result is marked as aborted.
C16_AbortTerminatesAndReturns ==
    (runPc = "awaiting_exit" /\ abortSignal = "aborted")
        ~> (/\ runPc = "returned"
            /\ "SIGTERM" \in delivered
            /\ "aborted" \in DOMAIN runResult
            /\ runResult.aborted)

\* C16 (what the code does): the signal was triggered, the child ignores the
\* one SIGTERM abortHandler sent, and the run still awaits its exit with no
\* timer left to end it.
C16_AbortedRunStillWaiting ==
    /\ engineFn = "runCodexProcess"
    /\ runPc = "awaiting_exit"
    /\ aborted
    /\ childOnTerm = "ignores"
    /\ delivered = {"SIGTERM"}
    /\ timer = "null"
    /\ completionTimer = "null"

\* C17: at most one child process of the engine instance is alive at any
\* time, also when several missions are created concurrently on the same
\* orchestrator.
C17_OneChildPerEngine ==
    Cardinality(liveChildren) <= 1

\* C17 (what the code does): two missions of one orchestrator each await a
\* run, and the children of both are alive.
C17_TwoMissionsTwoChildren ==
    \E m1, m2 \in Missions :
        /\ m1 # m2
        /\ flows[m1].pc = "run"
        /\ flows[m2].pc = "run"
        /\ flows[m1].child \in liveChildren
        /\ flows[m2].child \in liveChildren
        /\ runnerActiveChild = flows[m2].child

\* The positions in mission.logs of the entries of a type.
PositionsOf(type) == {i \in DOMAIN missionLog : missionLog[i].type = type}

\* The first planning attempt resolved with exit code 0 and prose that is not
\* JSON: its raw result, its candidate and its failure follow its prompt.
FirstAttemptWasProse ==
    /\ Len(missionLog) >= 4
    /\ missionLog[2].type = <<"plan", "initial", "raw">>
    /\ missionLog[2].data = "0"
    /\ missionLog[3].type = <<"plan", "initial", "candidate">>
    /\ missionLog[4].type = <<"plan", "initial", "failure">>

\* #planMission has applied a plan.
Planned == "mission:planned" \in EventTypes(events)

\* The planning attempt that gave the plan: the one of the last prompt entry.
PlanningAttempts == Cardinality({i \in DOMAIN missionLog : missionLog[i].prompt # NoPrompt})

\* C21: when the first planning attempt returned non-JSON prose and a later
\* attempt within the budget returned a valid plan, planning has succeeded and
\* the mission goes on to execution (it never fails, and returns completed);
\* mission.logs holds, in attempt order, the prompt and the raw result of the
\* first attempt, its failure entry with the not-valid-JSON diagnostic, and the
\* prompt and the raw result of the attempt that gave the plan, which has no
\* failure entry; every retry prompt carries the diagnostic of the failure
\* logged just before it, the first retry that of the first attempt.
C21_RetryAfterProseSucceeds ==
    (FirstAttemptWasProse /\ Planned) =>
        LET last == PlanLabel(PlanningAttempts - 1)
            promptAt == CHOOSE i \in PositionsOf(<<"plan">> \o last \o <<"prompt">>) : TRUE
            rawAt == CHOOSE i \in PositionsOf(<<"plan">> \o last \o <<"raw">>) : TRUE
        IN  /\ PlanningAttempts \in 2..MAX_PLAN_ATTEMPTS
            /\ status \in {"planning", "executing", "completed"}
            /\ status = "planning" => pc = "plan_returned"
            /\ pc = "returned" => status = "completed"
            /\ agents # <<>>
            /\ PositionsOf(<<"plan", "initial", "prompt">>) = {1}
            /\ PositionsOf(<<"plan", "initial", "raw">>) = {2}
            /\ PositionsOf(<<"plan", "initial", "failure">>) = {4}
            /\ missionLog[4].reason = "Planner response was not valid JSON"
            /\ Cardinality(PositionsOf(<<"plan">> \o last \o <<"prompt">>)) = 1
            /\ Cardinality(PositionsOf(<<"plan">> \o last \o <<"raw">>)) = 1
            /\ PositionsOf(<<"plan">> \o last \o <<"failure">>) = {}
            /\ 4 < promptAt
            /\ promptAt < rawAt
            /\ missionLog[5].type = <<"plan", "retry-", "1", "prompt">>
            /\ missionLog[5].prompt.retryBlock = <<"retry", missionLog[4].reason>>
            /\ \A i \in DOMAIN missionLog :
                  (i > 1 /\ missionLog[i].prompt # NoPrompt) =>
                      /\ missionLog[i - 1].reason # NoStr
                      /\ missionLog[i].prompt.retryBlock = <<"retry", missionLog[i - 1].reason>>

\* C21 (witness): the mission returned completed after a first planning
\* attempt that gave prose and a second that gave the plan.
C21_CompletedAfterOneRetry ==
    /\ pc = "returned"
    /\ status = "completed"
    /\ FirstAttemptWasProse
    /\ PlanningAttempts = 2
    /\ Len(missionLog) = 7
    /\ missionLog[6].type = <<"plan", "retry-", "1", "raw">>
    /\ Len(results) = 2

\* s is a prefix of t: t has every entry of s, unaltered, at its place.
IsPrefix(s, t) == Len(s) <= Len(t) /\ SubSeq(t, 1, Len(s)) = s

\* C22: in the step in which an agent exhausts its attempt budget and the
\* mission becomes failed, and in every step of a failed mission, every agent
\* that was completed keeps its place, its status completed and its captured
\* result, and no entry of mission.results, of mission.logs or of any agent's
\* logs is removed or altered: the logs only grow.
C22_FailureRollsNothingBack ==
    [][(status' = "failed" \/ status = "failed") =>
          /\ Len(agents') = Len(agents)
          /\ \A i \in DOMAIN agents :
                agents[i].status = "completed" =>
                    /\ agents'[i] = agents[i]
                    /\ agents'[i].result # NoResult
          /\ results' = results
          /\ IsPrefix(logs, logs')
          /\ IsPrefix(missionLog, missionLog')
          /\ Len(agentLogs') = Len(agentLogs)
          /\ \A k \in DOMAIN agentLogs : IsPrefix(agentLogs[k], agentLogs'[k])]_vars

\* C22 (witness): the first agent completed with a request_iteration, the
\* instance it queued failed three attempts, and the mission is failed with
\* the first agent's result and every log entry in place.
C22_FailedAfterCompletedAgent ==
    /\ pc = "exec_returned"
    /\ status = "failed"
    /\ error # NoError
    /\ error.kind = "agent_exhausted"
    /\ Len(agents) >= 2
    /\ agents[1].status = "completed"
    /\ agents[1].result # NoResult
    /\ agents[2].status = "failed"
    /\ results = <<agents[1].id>>
    /\ agentLogs[agents[1].created] = <<"interaction">>
    /\ agentLogs[agents[2].created] = <<"interaction:error", "interaction", "interaction">>
    /\ \E i \in DOMAIN missionLog : missionLog[i].type = <<"iteration:queued">>
    /\ missionLog[Len(missionLog)].type = <<"agent:failure">>

\* C30: in the step in which a run settles with a request_iteration that is
\* fulfilled, the requester is finalized as completed and the new instances
\* stand right behind it in the queue, the clone of the target first and the
\* follow-up clone after it, ahead of every agent that was queued behind the
\* requester; and the loop starts the agents in queue order: the agent started
\* after one finished is the one right behind it, every agent before it being
\* completed.
C30_InsertedAgentsRunNext ==
    [][/\ (pc = "agent_run" /\ pc' = "agent_finished" /\ Len(agents') > Len(agents)) =>
            LET n == Len(agents') - Len(agents)
                target == GetAgentBlueprint(agentBlueprints,
                                            TargetNameOf(settled'.directive, agents[idx]))
            IN  /\ idx' = idx
                /\ agents'[idx].status = "completed"
                /\ agents'[idx].created = agents[idx].created
                /\ n \in 1..2
                /\ \A k \in 1..n :
                      /\ agents'[idx + k].created = Len(agents) + k
                      /\ agents'[idx + k].status = "pending"
                      /\ agents'[idx + k].triggeredBy = agents[idx].name
                /\ target # NoBlueprint
                /\ agents'[idx + 1].baseName = target.name
                /\ n = 2 =>
                      agents'[idx + 2].baseName =
                          GetAgentBlueprint(agentBlueprints,
                                            FollowUpName(agents[idx], settled'.directive)).name
                /\ \A i \in (idx + 1)..Len(agents) : agents'[i + n] = agents[i]
       /\ (pc = "agent_finished" /\ pc' = "agent_run") =>
            /\ idx' = idx + 1
            /\ agents'[idx'].status = "running"
            /\ agents[idx'].status = "pending"
            /\ \A i \in 1..idx : agents'[i].status = "completed"
            /\ events'[Len(events')] = [type |-> "agent:started", agent |-> agents[idx'].id]
       /\ (pc = "agent_finished" /\ pc' # "agent_run") =>
            /\ pc' = "exec_returned"
            /\ idx = Len(agents)]_vars

\* C30 (witness): the first of two planned agents asked for an iteration of the
\* second; the clone of the second has completed, the follow-up clone of the
\* requester is running, and the second planned agent is still pending behind
\* them.
C30_FollowUpRunsBeforeQueuedAgent ==
    /\ pc = "agent_run"
    /\ Len(agents) = 4
    /\ idx = 3
    /\ agents[1].status = "completed"
    /\ agents[1].created = 1
    /\ agents[2].status = "completed"
    /\ agents[2].created = 3
    /\ agents[2].baseName = <<"agent_", "2">>
    /\ agents[2].triggeredBy = <<"a">>
    /\ agents[3].status = "running"
    /\ agents[3].created = 4
    /\ agents[3].baseName = <<"a">>
    /\ agents[3].triggeredBy = <<"a">>
    /\ agents[4].status = "pending"
    /\ agents[4].created = 2

\* The one-agent mission the directives of a message are handled in: the plan
\* of the agent a, whose run ended with the message.
OneAgentQueue ==
    PlanAgents([mission_summary |-> "S", summary |-> NoStr, agents |-> <<[name |-> <<"a">>]>>])

\* What #executeMission makes of a run of that agent that exited with code 0
\* and whose message gave the directive d.
OutcomeOf(d) ==
    AttemptOutcome(OneAgentQueue, {<<"a">>}, OneAgentQueue[1], 1,
                   [exitCode |-> "0", directive |-> d, hadExecutionErrors |-> FALSE])

\* The text behind the last marker of the message (the whole message when it
\* has no marker).
TrailingText ==
    LET markers == {i \in DOMAIN message : message[i] = Marker}
    IN  IF markers = {} THEN message
        ELSE SubSeq(message, (CHOOSE i \in markers : \A j \in markers : j <= i) + 1,
                    Len(message))

HasMarker == \E i \in DOMAIN message : message[i] = Marker

\* The action a directive states: its action, its legacy status when it has
\* no action, none otherwise.
StatedAction(d) ==
    IF d.action # NoStr THEN d.action ELSE IF d.status # NoStr THEN d.status ELSE "none"

\* C24: a message with no marker, or whose trailing text holds no JSON
\* object, gives no directive, and the attempt fails as "directive missing or
\* invalid"; a directive whose action (its legacy status when it has no
\* action) is continue lets the agent complete with nothing inserted; one
\* whose action is request_iteration is the iteration variant (the target
\* cloned behind the requester); any other action and a missing action fail
\* the attempt with a reason of their own ("Unsupported CONTROL_JSON action",
\* "CONTROL_JSON missing action"), never the reason of a missing directive and
\* never a success.
C24_DirectiveClassification ==
    (message # NoText /\ extracted # <<>>) =>
        LET d == extracted[1]
            out == OutcomeOf(d)
        IN  /\ ~HasMarker => d = NoDirective
            /\ (\A i \in DOMAIN TrailingText : TrailingText[i] \notin DOMAIN ObjectTexts)
                  => d = NoDirective
            /\ d = NoDirective =>
                  /\ ~out.ok
                  /\ out.reason = "CONTROL_JSON directive missing or invalid"
            /\ d # NoDirective =>
                  /\ HasMarker
                  /\ d \in {ObjectTexts[t] : t \in DOMAIN ObjectTexts}
                  /\ StatedAction(d) = "continue" =>
                        /\ out.ok
                        /\ out.inserted = 0
                        /\ out.agents = OneAgentQueue
                  /\ StatedAction(d) = "request_iteration" =>
                        /\ out.ok
                        /\ out.inserted = 1
                        /\ Len(out.agents) = 2
                        /\ out.agents[2].baseName = d.target_agent
                  /\ StatedAction(d) = "none" =>
                        /\ ~out.ok
                        /\ out.reason = "CONTROL_JSON missing action"
                  /\ StatedAction(d) \notin {"continue", "request_iteration", "none"} =>
                        /\ ~out.ok
                        /\ out.reason = "Unsupported CONTROL_JSON action"
                        /\ out.agents = OneAgentQueue

\* C24 (witness): the message ends with a directive whose action is deploy
\* and whose legacy status is continue; the parser returned it with that
\* action.
C24_UnsupportedActionParsed ==
    /\ message = <<"prose", Marker, "{\"action\":\"deploy\",\"status\":\"continue\"}">>
    /\ extracted # <<>>
    /\ extracted[1] # NoDirective
    /\ extracted[1].action = "deploy"
    /\ extracted[1].status = "continue"

\* Texts that can stand before a message: one token, or an earlier directive.
EarlierTexts ==
    {<<t>> : t \in Tokens} \cup {<<Marker, t>> : t \in DOMAIN ObjectTexts}

\* C25: the parser parses the text behind the last marker and nothing before
\* it: what it returns for a message with a marker is what safeJsonParse makes
\* of that trailing text (when that is an object), it is the same whatever
\* text, an earlier directive included, stands before the message, and the
\* same as for the last marker with the trailing text alone; a message
\* without marker gives no directive.
C25_LastMarkerDecides ==
    (message # NoText /\ extracted # <<>>) =>
        /\ ~HasMarker => extracted[1] = NoDirective
        /\ HasMarker =>
              /\ extracted[1] = IF TrailingText # <<>>
                                   /\ SafeJsonParse(TrailingText) # NoJson
                                   /\ "scalar" \notin DOMAIN SafeJsonParse(TrailingText)
                                THEN SafeJsonParse(TrailingText) ELSE NoDirective
              /\ extracted[1] = ExtractControlDirective(<<Marker>> \o TrailingText)
              /\ \A earlier \in EarlierTexts :
                    ExtractControlDirective(earlier \o message) = extracted[1]

\* C25 (witness): the message holds a request_iteration directive and, after
\* it, a continue directive; the parser returned the continue directive.
C25_LaterDirectiveReturned ==
    /\ message = <<Marker, "{\"action\":\"request_iteration\",\"target_agent\":\"a\"}",
                   Marker, "{\"action\":\"continue\"}">>
    /\ extracted # <<>>
    /\ extracted[1] = ObjectTexts["{\"action\":\"continue\"}"]

KeptPositions(raw) ==
    {i \in DOMAIN raw : ~(raw[i] = "CR" /\ i < Len(raw) /\ raw[i + 1] = "LF")}

\* A text with each LF and each CRLF replaced by one space, position by
\* position.
LineBreaksReplaced(raw) ==
    LET kept == KeptPositions(raw)
        nth(k) == CHOOSE i \in kept : Cardinality({j \in kept : j <= i}) = k
    IN  [k \in 1..Cardinality(kept) |->
            IF raw[nth(k)] = "LF" THEN " " ELSE raw[nth(k)]]

\* The text the payload was made from.
PayloadSource == IF builtPrompt # NoText THEN builtPrompt ELSE rawPrompt

\* C27: the prompt built by the orchestrator and the payload runOnce writes
\* to the child hold no line feed; each is its input with every LF and every
\* CRLF replaced by a single space and everything else kept (a carriage
\* return that no line feed follows included); sanitizing either again
\* returns it unchanged.
C27_PayloadIsSanitized ==
    /\ builtPrompt # NoText =>
          /\ \A i \in DOMAIN builtPrompt : builtPrompt[i] # "LF"
          /\ builtPrompt = LineBreaksReplaced(rawPrompt)
          /\ SanitizePrompt(builtPrompt) = builtPrompt
    /\ promptPayload # NoText =>
          /\ \A i \in DOMAIN promptPayload : promptPayload[i] # "LF"
          /\ promptPayload = LineBreaksReplaced(PayloadSource)
          /\ promptPayload = LineBreaksReplaced(rawPrompt)
          /\ SanitizePrompt(promptPayload) = promptPayload

\* C27 (witness): an instruction with a line feed and a CRLF went to the
\* child as three characters, a space for each line break.
C27_TwoLineBreaksForwarded ==
    /\ rawPrompt = <<"LF", "a", "CR", "LF">>
    /\ promptPayload = <<" ", "a", " ">>

\* A text JSON.parse throws on.
FailsToParse(line) == line \notin DOMAIN JsonLines

\* The step hands a line to JSON.parse.
LineAttempted == attempted' # attempted

\* The step is a handler of arriving output taking a whole line that is not
\* blank, in a run that reads JSON.
WholeLineArrives ==
    /\ stdout' # stdout
    /\ isJsonStream
    /\ stdout'[Len(stdout')][2]
    /\ Joined(jsonBuffer, stdout'[Len(stdout')][1]) # ""

\* What C23 says of every line but its being reported.
ParseFailureLeavesRunAlone ==
    /\ WholeLineArrives =>
          attempted' = Append(attempted, Joined(jsonBuffer, stdout'[Len(stdout')][1]))
    /\ LineAttempted =>
          LET line == attempted'[Len(attempted')]
          IN  /\ attempted' = Append(attempted, line)
              /\ FailsToParse(line) =>
                    /\ UNCHANGED <<resultEvents, accumulators, completionSeen>>
                    /\ stdout' # stdout => streamPc' = "running"
              /\ ~FailsToParse(line) =>
                    resultEvents' = Append(resultEvents, JsonLines[line])

C28_NoCrossMissionTermination ==
    \A kill \in ensureKills : kill[2][1] = kill[1]

\* C28 (what the code does): mission m, before the retry of its failed run,
\* awaits an ensureInactive that sent SIGTERM to the child another mission
\* still awaits the exit of.
C28_OtherMissionsChildKilled ==
    \E m1, m2 \in Missions :
        /\ m1 # m2
        /\ flows[m1].pc = "ensure_wait"
        /\ flows[m2].pc = "run"
        /\ flows[m2].child \in liveChildren
        /\ flows[m1].child = flows[m2].child
        /\ <<m1, flows[m2].child>> \in ensureKills

\* C29: within a mission the child of a run has exited before the next run
\* of the mission spawns its child, whether the next run is the first of the
\* next stage or a retry: every child alive is the child of the last run its
\* mission issued, that mission awaits that run, and a mission that awaits
\* ensureInactive or has returned has no child alive; ensureInactive itself
\* finds no process to end.
C29_RunsOfAMissionNeverOverlap ==
    /\ \A c \in liveChildren :
          /\ c = <<c[1], flows[c[1]].runs>>
          /\ flows[c[1]].pc = "run"
          /\ flows[c[1]].child = c
    /\ \A m \in Missions :
          /\ Cardinality({c \in liveChildren : c[1] = m}) <= 1
          /\ flows[m].pc \in {"ensure", "done"} => {c \in liveChildren : c[1] = m} = {}
          /\ flows[m].pc = "ensure" => runnerActiveChild \notin liveChildren

\* C29 (witness): a mission whose planning took a retry awaits the run of
\* its first agent, the third run it issued; the child of that run is the
\* only child alive.
C29_ThirdRunAlone ==
    /\ flows[1].stage = 2
    /\ flows[1].attemptIndex = 0
    /\ flows[1].runs = 3
    /\ flows[1].pc = "run"
    /\ liveChildren = {<<1, 3>>}

\* The creation numbers of the instances of a queue.
CreatedIn(ags) == {ags[i].created : i \in DOMAIN ags}

\* The status of the instance with creation number c.
StatusOf(ags, c) == ags[CHOOSE i \in DOMAIN ags : ags[i].created = c].status

\* The agent:started events emitted so far.
StartedEvents(evs) == {k \in DOMAIN evs : evs[k].type = "agent:started"}

\* C31: an instance is marked running only while it is pending, never again
\* once it is running, completed or failed, and each marking emits one
\* agent:started; no instance leaves the queue or returns to pending, an
\* instance spliced in is pending; so the agent:started events number the
\* instances that are not pending, and when the loop ends without a failure
\* every instance of the queue, spliced in or planned, has been started once
\* and is completed.
C31_EachInstanceStartedOnce ==
    [][\/ agents' = agents /\ events' = events /\ pc' # "exec_returned"
       \/ LET before == [c \in CreatedIn(agents) |-> StatusOf(agents, c)]
              after == [c \in CreatedIn(agents') |-> StatusOf(agents', c)]
              started == Cardinality(StartedEvents(events'))
          IN  /\ Cardinality(DOMAIN after) = Len(agents')
              /\ \A c \in DOMAIN before :
                    /\ c \in DOMAIN after
                    /\ (after[c] = "running" /\ before[c] # "running")
                          => /\ before[c] = "pending"
                             /\ started = Cardinality(StartedEvents(events)) + 1
                             /\ events'[Len(events')].type = "agent:started"
                    /\ before[c] # "pending" => after[c] # "pending"
              /\ \A c \in DOMAIN after \ DOMAIN before : after[c] = "pending"
              /\ started = Cardinality({c \in DOMAIN after : after[c] # "pending"})
              /\ (pc' = "exec_returned" /\ status' # "failed") =>
                    /\ \A c \in DOMAIN after : after[c] = "completed"
                    /\ started = Len(agents')]_vars

\* C31 (witness): the loop ended without a failure on a queue that grew by
\* two spliced instances; every instance is completed and was started once.
C31_LoopEndedOnGrownQueue ==
    /\ pc = "exec_returned"
    /\ status = "executing"
    /\ Len(agents) >= 3
    /\ \E i \in DOMAIN agents : agents[i].triggeredBy # NoName /\ agents[i].created > i
    /\ \A i \in DOMAIN agents : agents[i].status = "completed"
    /\ Cardinality(StartedEvents(events)) = Len(agents)

\* The run an agent was awaiting settles in this step with exit code 0 and a
\* request_iteration whose target resolves.
SettlesWithResolvableTarget ==
    /\ pc = "agent_run"
    /\ settled'.kind = "resolved"
    /\ settled'.exitCode = "0"
    /\ settled'.directive # NoDirective
    /\ ActionOf(settled'.directive) = "request_iteration"
    /\ Resolvable(TargetNameOf(settled'.directive, agents[idx]))

\* The follow-up name as the directive states or implies it: next_agent, else
\* follow_up_agent, else the requester's own base name.
StatedFollowUp ==
    IF settled'.directive.next_agent # NoName THEN settled'.directive.next_agent
    ELSE IF settled'.directive.follow_up_agent # NoName THEN settled'.directive.follow_up_agent
    ELSE agents[idx].baseName

\* One instance of the target's blueprint is inserted behind the requester,
\* and a second one, of the follow-up's blueprint, exactly when the follow-up
\* name differs from the target's base name and resolves.
InsertsOneOrTwo ==
    LET T == BaseOf(TargetNameOf(settled'.directive, agents[idx]))
        F == StatedFollowUp
        inserted == Len(agents') - Len(agents)
    IN  /\ inserted \in {1, 2}
        /\ inserted = 2 <=> (F # T /\ Resolvable(F))
        /\ agents'[idx + 1].baseName = T
        /\ agents'[idx + 1].status = "pending"
        /\ inserted = 2 =>
              /\ agents'[idx + 2].baseName = BaseOf(F)
              /\ agents'[idx + 2].status = "pending"
        /\ agents'[idx].status = "completed"

TextsOfEvent(event) ==
    IF ~("type" \in DOMAIN event) THEN <<>>
    ELSE IF event.type # "item.completed" \/ event.item.type # "agent_message" THEN <<>>
    ELSE LET blocks == SelectSeq(event.item.content,
                                 LAMBDA b : b.type = "text" /\ b.text # NoText)
             joined == JoinTextBlocks(blocks)
         IN  (IF event.item.text \in {NoText, <<>>} THEN <<>> ELSE <<event.item.text>>)
             \o (IF blocks = <<>> \/ joined = <<>> THEN <<>> ELSE <<joined>>)

RECURSIVE TextsOfEvents(_)
TextsOfEvents(evs) ==
    IF evs = <<>> THEN <<>> ELSE TextsOfEvent(Head(evs)) \o TextsOfEvents(Tail(evs))

\* The candidates in the priority order: the final message, the texts of the
\* completed agent messages in stream order, the raw standard output; blank
\* and absent texts are no candidates.
CandidatesInPriorityOrder ==
    (IF planResult.lastAgentMessage \in {NoText, <<>>} THEN <<>>
     ELSE <<planResult.lastAgentMessage>>)
    \o TextsOfEvents(planResult.events)
    \o (IF planResult.stdout = <<>> THEN <<>> ELSE <<planResult.stdout>>)

\* C33: the candidates are considered in the order final message, texts of
\* the completed agent messages in stream order, raw standard output; every
\* one of them is recorded in the mission log, in that order, whether or not
\* any parses; the plan returned is the value of the first of them that
\* parses to an object with a list under agents, and null when none does.
C33_FirstParsingCandidateIsThePlan ==
    planParsed # NoResult =>
        LET inOrder == CandidatesInPriorityOrder
            parses(k) == IsPlan(SafeJsonParse(inOrder[k]))
        IN  /\ Len(candidateLog) = Len(inOrder)
            /\ \A k \in DOMAIN inOrder :
                  /\ candidateLog[k].preview = inOrder[k]
                  /\ candidateLog[k].index = k - 1
                  /\ (parses(k) /\ \A j \in 1..(k - 1) : ~parses(j))
                        => /\ planParsed.plan = SafeJsonParse(inOrder[k])
                           /\ planParsed.preview = inOrder[k]
            /\ (\A k \in DOMAIN inOrder : ~parses(k)) => planParsed.plan = NoPlan

\* C33 (witness): the final message of the run was prose, a plan came in an
\* earlier agent message and another in the text blocks of a third: all
\* candidates are logged and the earlier message's plan is returned.
C33_EarlierMessageIsThePlan ==
    /\ planParsed # NoResult
    /\ planParsed.plan # NoPlan
    /\ Len(candidateLog) >= 4
    /\ candidateLog[1].preview = planResult.lastAgentMessage
    /\ ~IsPlan(SafeJsonParse(candidateLog[1].preview))
    /\ planParsed.preview = candidateLog[2].preview
    /\ \E k \in 3..Len(candidateLog) :
          /\ IsPlan(SafeJsonParse(candidateLog[k].preview))
          /\ SafeJsonParse(candidateLog[k].preview) # planParsed.plan
    /\ candidateLog[Len(candidateLog)].preview = planResult.stdout

\* The positions of the parsed events that carry what an accumulator takes.
WithThreadId == {k \in DOMAIN resultEvents : resultEvents[k].thread_id # NoStr}

WithTurnId == {k \in DOMAIN resultEvents : resultEvents[k].turn_id # NoStr}

CompletedMessages ==
    {k \in DOMAIN resultEvents :
        /\ resultEvents[k].type = "item.completed"
        /\ resultEvents[k].itemType = "agent_message"
        /\ resultEvents[k].itemText # NoStr}

TurnsWithUsage ==
    {k \in DOMAIN resultEvents :
        resultEvents[k].type = "turn.completed" /\ resultEvents[k].usage # NoStr}

CompletionEvents == {k \in DOMAIN resultEvents : resultEvents[k].type \in COMPLETION_EVENTS}

FirstOf(positions) == CHOOSE k \in positions : \A j \in positions : k <= j

LastOf(positions) == CHOOSE k \in positions : \A j \in positions : j <= k

\* The turn id, the final message, the usage and the completion tag are those
\* of the last event that carries one.
LastValuesKept ==
    /\ turnId = IF WithTurnId = {} THEN NoStr ELSE resultEvents[LastOf(WithTurnId)].turn_id
    /\ lastAgentMessage = IF CompletedMessages = {} THEN NoStr
                          ELSE resultEvents[LastOf(CompletedMessages)].itemText
    /\ usage = IF TurnsWithUsage = {} THEN NoStr
               ELSE resultEvents[LastOf(TurnsWithUsage)].usage
    /\ lastCompletionType = IF CompletionEvents = {} THEN NoStr
                            ELSE resultEvents[LastOf(CompletionEvents)].type

TerminalEvents ==
    {k \in DOMAIN events : events[k].type \in {"mission:completed", "mission:failed"}}

\* C35: at most one terminal lifecycle event (mission:completed or
\* mission:failed) is emitted for the mission, it is the last lifecycle event,
\* and once createMission has returned the mission there is exactly one and
\* it agrees with the returned status.
C35_OneTerminalEvent ==
    /\ Cardinality(TerminalEvents) <= 1
    /\ \A k \in TerminalEvents : k = Len(events)
    /\ (pc = "returned" /\ status # "none") =>
          /\ Cardinality(TerminalEvents) = 1
          /\ status = "completed" <=> events[Len(events)].type = "mission:completed"
          /\ status = "failed" <=> events[Len(events)].type = "mission:failed"

\* C35 (what the code does): createMission has returned after an agent
\* exhausted its attempts; mission:failed was emitted and mission:completed
\* after it.
C35_FailedThenCompletedEmitted ==
    /\ pc = "returned"
    /\ status = "completed"
    /\ Len(events) >= 2
    /\ events[Len(events) - 1].type = "mission:failed"
    /\ events[Len(events)].type = "mission:completed"

\* C36: createMission eventually returns the mission, completed or failed,
\* whatever the runs of the executor end with, every run and every
\* ensureInactive returning.
C36_CreateMissionReturns == <>(loopPc = "returned" /\ loopStatus \in {"completed", "failed"})

\* C36 (what the code does): the loop runs an instance that a
\* request_iteration queued, the only one left, and its run can end with a
\* fulfilled request_iteration again.
C36_LoopRunsARequestedInstance ==
    /\ loopPc = "agent_run"
    /\ Len(remaining) = 1
    /\ remaining[1].triggered
    /\ loopAttempt = 0

\* The status changes an agent instance may go through in one step.
AllowedStatusSteps == {<<"pending", "running">>, <<"running", "completed">>, <<"running", "failed">>}

\* C37: the status of an agent instance only moves from pending to running
\* and from running to completed or failed: an instance that is completed or
\* failed was running in the step before, an instance keeps running across
\* the retries of its attempts, and an instance spliced in is pending.
C37_StatusOnlyMovesForward ==
    [][LET before == [c \in CreatedIn(agents) |-> StatusOf(agents, c)]
           after == [c \in CreatedIn(agents') |-> StatusOf(agents', c)]
       IN  /\ \A c \in DOMAIN before :
                 /\ c \in DOMAIN after
                 /\ before[c] # after[c] => <<before[c], after[c]>> \in AllowedStatusSteps
           /\ \A c \in DOMAIN after \ DOMAIN before : after[c] = "pending"
           /\ (pc = "agent_run" /\ pc' = "agent_ensure") =>
                 /\ agents[idx].status = "running"
                 /\ agents'[idx].status = "running"]_vars

\* C37 (its case): the agents of one mission ended both ways: one was
\* completed, the next failed after its retries, and an instance queued
\* behind them is still pending.
C37_CompletedFailedAndPending ==
    /\ pc = "returned"
    /\ \E i, j, k \in DOMAIN agents :
          /\ agents[i].status = "completed"
          /\ agents[j].status = "failed"
          /\ j = idx
          /\ attemptIndex = MAX_AGENT_ATTEMPTS
          /\ agents[k].status = "pending"

\* The agent ids of the agent:finished events emitted so far, in order.
FinishedIds(evs) ==
    LET fin == SelectSeq(evs, LAMBDA e : e.type = "agent:finished")
    IN  [k \in DOMAIN fin |-> fin[k].agent]

\* C38: mission.results holds one entry for each completed agent instance,
\* in the order the instances completed (the order of the queue, whose
\* completed instances are its first ones), none for an instance that is
\* pending, running or failed, and its entries are those of the
\* agent:finished events, one for one.
C38_OneResultPerCompletedAgent ==
    /\ Len(results) = Cardinality(CompletedIn(agents))
    /\ Len(results) <= Len(agents)
    /\ \A k \in DOMAIN agents :
          IF k <= Len(results)
          THEN agents[k].status = "completed" /\ results[k] = agents[k].id
          ELSE agents[k].status \in {"pending", "running", "failed"}
    /\ FinishedIds(events) = results

\* C38 (its case): two instances completed, the second one queued by the
\* first, and the third failed: two results and two agent:finished events.
C38_TwoResultsThenAFailure ==
    /\ pc = "returned"
    /\ Len(results) = 2
    /\ Len(agents) >= 3
    /\ agents[2].triggeredBy # NoName
    /\ agents[3].status = "failed"
    /\ Len(FinishedIds(events)) = 2

\* C39: a codex.exec call naming a session id that the map does not hold
\* throws Unknown Codex session, starts no process and leaves the map as it
\* is; the map changes only when a run returns with effective exit code 0,
\* and then only at that run's session; so every session of the map is the
\* session of a run that returned with exit code 0.
C39_SessionsStemFromSuccessfulRuns ==
    [][/\ (execClock' # execClock /\ execCalls' = execCalls) =>
             /\ execThrown' \in {"Unknown Codex session: " \o id : id \in SessionIdArgs \ DOMAIN sessions}
             /\ execSpawns' = execSpawns
             /\ sessions' = sessions
       /\ \A n \in execSpawns' \ execSpawns :
             Truthy(execCalls'[n].sessionId) => execCalls'[n].sessionId \in DOMAIN sessions
       /\ sessions' # sessions =>
             /\ Len(execReturns') = Len(execReturns) + 1
             /\ execReturns'[Len(execReturns')].exitCode = "0"
             /\ \A id \in DOMAIN sessions' :
                   id # execReturns'[Len(execReturns')].sessionId =>
                       id \in DOMAIN sessions /\ sessions'[id] = sessions[id]
       /\ \A id \in DOMAIN sessions' :
             \E k \in DOMAIN execReturns' :
                 execReturns'[k].exitCode = "0" /\ execReturns'[k].sessionId = id]_vars

\* C39 (its case): a call named an unknown session and threw, a run returned
\* with exit code 0 and its session is in the map, and a run that returned
\* with another exit code left no session.
C39_UnknownSessionThrewAndOneSessionKept ==
    /\ execThrown = "Unknown Codex session: s1"
    /\ DOMAIN sessions = {"t1"}
    /\ execSpawns = {2, 3}
    /\ \E k \in DOMAIN execReturns : execReturns[k].exitCode = "1" /\ execReturns[k].sessionId = "t2"

\* The runOnce call mission m awaits settles in this step.
RunSettles(m) ==
    /\ flows[m].pc = "run"
    /\ flows'[m].pc # "run" \/ flows'[m].runs # flows[m].runs

\* The ensureInactive mission m awaits resolves in this step.
EnsureInactiveSettles(m) ==
    /\ flows[m].pc \in {"ensure", "ensure_wait"}
    /\ flows'[m].pc = "run"

\* The child the ensureInactive awaited by mission m looked at.
ChildOfEnsure(m) == IF flows[m].pc = "ensure_wait" THEN flows[m].child ELSE runnerActiveChild

====
